---- MODULE Spec2Model ----
(***************************************************************************)
(* The view API of baserow.contrib.database (api/views/views.py): the      *)
(* endpoints that create, update, order and share views, their filters,    *)
(* sorts and field options, and the public link-row lookup.                *)
(*                                                                         *)
(* Every endpoint is a request that runs in steps against a database with  *)
(* READ COMMITTED isolation: it fetches its target row (taking a row lock  *)
(* when the endpoint asks for select_for_update), runs the ViewHandler     *)
(* operation, which validates against the committed rows and issues its    *)
(* write, and commits (transaction.atomic).  The write of a request is     *)
(* visible to the other requests from its commit on.  An exception ends    *)
(* the request at once: the transaction rolls back and map_exceptions      *)
(* turns the exception into the API error of the response.                 *)
(*                                                                         *)
(* ViewHandler, the view type registry and the models live outside         *)
(* views.py; they are modelled from the specification of the repository.   *)
(***************************************************************************)
EXTENDS Integers, Sequences, FiniteSets, TLC

VARIABLES
    views,      \* View rows: id -> [table, type, name, order, slug, public]
    filters,    \* ViewFilter rows: set of [id, view, field, type, value]
    sorts,      \* ViewSort rows: set of [id, view, field, order]
    options,    \* field option rows: set of [id, view, field, hidden]
    rows,       \* rows of table T1: id -> [val: text field -> value, links]
    seq,        \* id sequences of the database: [sort, filter, option, view]
    issued,     \* slugs the token generator has handed out so far
    history,    \* per view id: the slugs the view held before its current one
    req         \* the requests: request -> its position, locals and response

vars == <<views, filters, sorts, options, rows, seq, issued, history, req>>

persisted == <<views, filters, sorts, options, rows>>

-----------------------------------------------------------------------------
(* Bounds of the model.                                                    *)

MaxSorts == 2       \* ids the ViewSort sequence hands out
MaxFilters == 2     \* ids the ViewFilter sequence hands out
MaxSlugs == 3       \* tokens the slug generator hands out
MaxOptions == 2     \* ids the field options sequence hands out
MaxOrderLen == 3    \* longest view_ids list of an order request

Reqs == {1, 2}      \* request slots: two requests may run concurrently

OneReq == {1}       \* the slot of the specifications that run one request at a time

-----------------------------------------------------------------------------
(* The table/field provider: two tables, T1 with three text fields and a   *)
(* link row field to T2, T2 with its primary text field.                   *)

Tables == {"T1", "T2"}

FieldIds == 1..5

LinkField == 4

FieldTable(f) == IF f = 5 THEN "T2" ELSE "T1"

FieldType(f) == IF f = LinkField THEN "link_row" ELSE "text"

link_row_table(f) == "T2"

\* field_type.can_order_by: link row fields cannot be sorted on.
can_order_by(f) == FieldType(f) # "link_row"

TargetRowIds == {1, 2}

\* The primary field value of the rows of T2.
TargetName(i) == IF i = 1 THEN "a" ELSE "b"

Values == {"a", "b"}

RowIds == {1, 2}

-----------------------------------------------------------------------------
(* The view type registry: the capability flags of each view type.         *)

ViewTypes == {"grid", "form", "gallery", "kanban"}

view_type_registry ==
    [t \in ViewTypes |->
        CASE t = "grid" ->
                [can_filter |-> TRUE, can_sort |-> TRUE, can_share |-> TRUE,
                 restrict_link_row_public_view_sharing |-> TRUE,
                 has_field_options |-> TRUE]
          [] t = "form" ->
                [can_filter |-> FALSE, can_sort |-> FALSE, can_share |-> TRUE,
                 restrict_link_row_public_view_sharing |-> FALSE,
                 has_field_options |-> TRUE]
          [] t = "gallery" ->
                [can_filter |-> FALSE, can_sort |-> FALSE, can_share |-> TRUE,
                 restrict_link_row_public_view_sharing |-> TRUE,
                 has_field_options |-> TRUE]
          [] OTHER ->
                [can_filter |-> TRUE, can_sort |-> TRUE, can_share |-> FALSE,
                 restrict_link_row_public_view_sharing |-> TRUE,
                 has_field_options |-> FALSE]]

-----------------------------------------------------------------------------
(* Rows of the database and of the requests.                               *)

NoSlug == 0

\* The tokens of the slug generator: those the initial views hold (the view's
\* id) and those it hands out later.
InitSlugs == 1..4

Slugs == 1..(4 + MaxSlugs)

ViewIds == 1..5

NoView == [table |-> "", type |-> "", name |-> "", order |-> 0,
           slug |-> NoSlug, public |-> FALSE]

NoSort == [id |-> 0, view |-> 0, field |-> 0, order |-> ""]

NoArg == [view |-> 0, field |-> 0, id |-> 0, order |-> "", type |-> "",
          value |-> "", table |-> "", ids |-> <<>>, user |-> "",
          slug |-> NoSlug, search |-> "", name |-> "", public |-> "",
          fo |-> <<>>]

NoFilter == [id |-> 0, view |-> 0, field |-> 0, type |-> "", value |-> ""]

Idle == [pc |-> "idle", op |-> "", arg |-> NoArg, view |-> NoView,
         sort |-> NoSort, filter |-> NoFilter, locks |-> {}, new |-> 0,
         token |-> NoSlug, ins |-> <<>>, status |-> "", ids |-> {}]

ViewExists(v) == v \in DOMAIN views

\* A slot takes a new request when it runs none: it is idle or holds the
\* response of its previous request ("done").
Free(r) == req[r].pc \in {"idle", "done"}

\* The row locks the requests other than r hold.
LockedByOther(r) == UNION {req[q].locks : q \in Reqs \ {r}}

\* The request ends: its transaction is over (its locks are released) and
\* the response is sent.
Respond(r, status, ids) ==
    req' = [req EXCEPT ![r] = [Idle EXCEPT !.pc = "done", !.op = req[r].op,
                                  !.arg = req[r].arg, !.status = status,
                                  !.ids = ids]]

\* A request that fails on the fetch of its target.
Reject(r, op, arg, status) ==
    req' = [req EXCEPT ![r] = [Idle EXCEPT !.pc = "done", !.op = op,
                                  !.arg = arg, !.status = status]]

\* The request fetched its target and goes on to the handler.
Fetched(r, op, arg, view, sort, locks) ==
    req' = [req EXCEPT ![r] = [Idle EXCEPT !.pc = "fetched", !.op = op,
                                  !.arg = arg, !.view = view, !.sort = sort,
                                  !.locks = locks]]

\* A database without the foreign key of the rows of a view to the view.
view_fk_exception_NoConstraint(v) == "none"

\* The foreign key of a filter, a sort and a field options row to its view
\* (deferred: checked when the inserting transaction commits): the insert
\* for a view that is gone raises IntegrityError.
view_fk_exception(v) == IF ViewExists(v) THEN "none" ELSE "IntegrityError"

\* The check of the foreign key reads the row of the view under a shared
\* lock: it waits while another transaction holds the row.
view_fk_locks(v) == {<<"view", v>>}

\* The commit failed: the transaction is rolled back, the exception leaves
\* transaction.atomic, outside map_exceptions.
RolledBack(r) ==
    /\ Respond(r, "ERROR_500", {})
    /\ UNCHANGED persisted

-----------------------------------------------------------------------------
(* ViewHandler: sorts.                                                     *)

SortsOf(v) == {s \in sorts : s.view = v}

SortById(id) == CHOOSE s \in sorts : s.id = id

SortExists(id) == \E s \in sorts : s.id = id

\* create_sort: the exception it raises on view v (the copy the request
\* fetched) and field f, or "none".
create_sort_exception(v, view, f) ==
    IF ~view_type_registry[view.type].can_sort THEN "ViewSortNotSupported"
    ELSE IF FieldTable(f) # view.table THEN "FieldNotInTable"
    ELSE IF ~can_order_by(f) THEN "ViewSortFieldNotSupported"
    ELSE IF \E s \in SortsOf(v) : s.field = f THEN "ViewSortFieldAlreadyExist"
    ELSE "none"

\* update_sort: the field and the order the sort gets (partial update).
update_sort_field(sort, arg) == IF arg.field = 0 THEN sort.field ELSE arg.field

update_sort_order(sort, arg) == IF arg.order = "" THEN sort.order ELSE arg.order

\* update_sort: the exception it raises, or "none".
update_sort_exception(sort, arg) ==
    LET f == update_sort_field(sort, arg)
    IN  IF FieldTable(f) # views[sort.view].table THEN "FieldNotInTable"
        ELSE IF f # sort.field /\ ~can_order_by(f)
            THEN "ViewSortFieldNotSupported"
        ELSE IF f # sort.field
                /\ \E s \in SortsOf(sort.view) : s.field = f /\ s.id # sort.id
            THEN "ViewSortFieldAlreadyExist"
        ELSE "none"

-----------------------------------------------------------------------------
(* ViewSortingsView.post: create a sort.                                   *)

\* The map without its ViewSortNotSupported entry.
ViewSortingsView_post_map_exceptions_NoNotSupported(exc) ==
    CASE exc = "ViewDoesNotExist" -> "ERROR_VIEW_DOES_NOT_EXIST"
      [] exc = "UserNotInGroup" -> "ERROR_USER_NOT_IN_GROUP"
      [] exc = "FieldNotInTable" -> "ERROR_FIELD_NOT_IN_TABLE"
      [] exc = "ViewSortFieldAlreadyExist" -> "ERROR_VIEW_SORT_FIELD_ALREADY_EXISTS"
      [] exc = "ViewSortFieldNotSupported" -> "ERROR_VIEW_SORT_FIELD_NOT_SUPPORTED"
      [] OTHER -> "ERROR_500"

\* The map without its ViewSortFieldAlreadyExist entry.
ViewSortingsView_post_map_exceptions_NoAlreadyExist(exc) ==
    CASE exc = "ViewDoesNotExist" -> "ERROR_VIEW_DOES_NOT_EXIST"
      [] exc = "UserNotInGroup" -> "ERROR_USER_NOT_IN_GROUP"
      [] exc = "FieldNotInTable" -> "ERROR_FIELD_NOT_IN_TABLE"
      [] exc = "ViewSortNotSupported" -> "ERROR_VIEW_SORT_NOT_SUPPORTED"
      [] exc = "ViewSortFieldNotSupported" -> "ERROR_VIEW_SORT_FIELD_NOT_SUPPORTED"
      [] OTHER -> "ERROR_500"

ViewSortingsView_post_map_exceptions(exc) ==
    CASE exc = "ViewDoesNotExist" -> "ERROR_VIEW_DOES_NOT_EXIST"
      [] exc = "UserNotInGroup" -> "ERROR_USER_NOT_IN_GROUP"
      [] exc = "FieldNotInTable" -> "ERROR_FIELD_NOT_IN_TABLE"
      [] exc = "ViewSortNotSupported" -> "ERROR_VIEW_SORT_NOT_SUPPORTED"
      [] exc = "ViewSortFieldAlreadyExist" -> "ERROR_VIEW_SORT_FIELD_ALREADY_EXISTS"
      [] exc = "ViewSortFieldNotSupported" -> "ERROR_VIEW_SORT_FIELD_NOT_SUPPORTED"
      [] OTHER -> "ERROR_500"

\* The row locks the endpoint takes on the view: view_handler.get_view(view_id)
\* is a plain read, it locks nothing.
ViewSortingsView_post_locks(view_id) == {}

\* view = view_handler.get_view(view_id)
ViewSortingsView_post_get_view(r, view_id, field, order) ==
    LET arg == [NoArg EXCEPT !.view = view_id, !.field = field, !.order = order]
    IN  /\ Free(r)
        /\ ViewSortingsView_post_locks(view_id) \cap LockedByOther(r) = {}
        /\ IF ViewExists(view_id)
           THEN Fetched(r, "create_sort", arg, views[view_id], NoSort,
                        ViewSortingsView_post_locks(view_id))
           ELSE Reject(r, "create_sort", arg,
                    ViewSortingsView_post_map_exceptions("ViewDoesNotExist"))
        /\ UNCHANGED <<persisted, seq, issued, history>>

\* view_handler.create_sort(user, view, field, order): the checks, then the
\* INSERT, which takes the next id of the sequence.
ViewSortingsView_post_create_sort(r) ==
    LET a == req[r].arg
        exc == create_sort_exception(a.view, req[r].view, a.field)
    IN  /\ req[r].pc = "fetched"
        /\ req[r].op = "create_sort"
        /\ IF exc # "none"
           THEN /\ Respond(r, ViewSortingsView_post_map_exceptions(exc), {})
                /\ UNCHANGED seq
           ELSE /\ seq.sort < MaxSorts
                /\ seq' = [seq EXCEPT !.sort = @ + 1]
                /\ req' = [req EXCEPT ![r].pc = "written",
                                      ![r].new = seq.sort + 1]
        /\ UNCHANGED <<persisted, issued, history>>

\* transaction.atomic: the commit makes the new row visible.
ViewSortingsView_post_commit(r) ==
    /\ req[r].pc = "written"
    /\ req[r].op = "create_sort"
    /\ view_fk_locks(req[r].arg.view) \cap LockedByOther(r) = {}
    /\ IF view_fk_exception(req[r].arg.view) # "none"
       THEN RolledBack(r)
       ELSE /\ sorts' = sorts \cup
                  {[id |-> req[r].new, view |-> req[r].arg.view,
                    field |-> req[r].arg.field, order |-> req[r].arg.order]}
            /\ Respond(r, "OK", {req[r].new})
            /\ UNCHANGED <<views, filters, options, rows>>
    /\ UNCHANGED <<seq, issued, history>>

-----------------------------------------------------------------------------
(* ViewSortView.patch: update a sort.                                      *)

\* The map without its ViewSortFieldAlreadyExist entry.
ViewSortView_patch_map_exceptions_NoAlreadyExist(exc) ==
    CASE exc = "ViewSortDoesNotExist" -> "ERROR_VIEW_SORT_DOES_NOT_EXIST"
      [] exc = "UserNotInGroup" -> "ERROR_USER_NOT_IN_GROUP"
      [] exc = "FieldNotInTable" -> "ERROR_FIELD_NOT_IN_TABLE"
      [] exc = "ViewSortFieldNotSupported" -> "ERROR_VIEW_SORT_FIELD_NOT_SUPPORTED"
      [] OTHER -> "ERROR_500"

ViewSortView_patch_map_exceptions(exc) ==
    CASE exc = "ViewSortDoesNotExist" -> "ERROR_VIEW_SORT_DOES_NOT_EXIST"
      [] exc = "UserNotInGroup" -> "ERROR_USER_NOT_IN_GROUP"
      [] exc = "FieldNotInTable" -> "ERROR_FIELD_NOT_IN_TABLE"
      [] exc = "ViewSortFieldAlreadyExist" -> "ERROR_VIEW_SORT_FIELD_ALREADY_EXISTS"
      [] exc = "ViewSortFieldNotSupported" -> "ERROR_VIEW_SORT_FIELD_NOT_SUPPORTED"
      [] OTHER -> "ERROR_500"

\* The row locks get_sort takes: select_for_update on the ViewSort row, and on
\* no other row (not the view, not the other sorts of the view).
ViewSortView_patch_locks(sort_id) == {<<"sort", sort_id>>}

\* handler.get_sort(user, id, base_queryset=ViewSort.objects.select_for_update()):
\* waits until no other transaction holds the row, then reads the committed row.
ViewSortView_patch_get_sort(r, sort_id, field, order) ==
    LET arg == [NoArg EXCEPT !.id = sort_id, !.field = field, !.order = order]
    IN  /\ Free(r)
        /\ ViewSortView_patch_locks(sort_id) \cap LockedByOther(r) = {}
        /\ IF SortExists(sort_id)
           THEN Fetched(r, "update_sort", arg, NoView, SortById(sort_id),
                        ViewSortView_patch_locks(sort_id))
           ELSE Reject(r, "update_sort", arg,
                    ViewSortView_patch_map_exceptions("ViewSortDoesNotExist"))
        /\ UNCHANGED <<persisted, seq, issued, history>>

\* handler.update_sort(user, view_sort, **data): the checks, then the UPDATE.
ViewSortView_patch_update_sort(r) ==
    LET exc == update_sort_exception(req[r].sort, req[r].arg)
    IN  /\ req[r].pc = "fetched"
        /\ req[r].op = "update_sort"
        /\ IF exc # "none"
           THEN Respond(r, ViewSortView_patch_map_exceptions(exc), {})
           ELSE req' = [req EXCEPT ![r].pc = "written"]
        /\ UNCHANGED <<persisted, seq, issued, history>>

ViewSortView_patch_commit(r) ==
    LET old == req[r].sort
        new == [old EXCEPT !.field = update_sort_field(old, req[r].arg),
                           !.order = update_sort_order(old, req[r].arg)]
    IN  /\ req[r].pc = "written"
        /\ req[r].op = "update_sort"
        /\ sorts' = (sorts \ {s \in sorts : s.id = old.id}) \cup {new}
        /\ Respond(r, "OK", {old.id})
        /\ UNCHANGED <<views, filters, options, rows, seq, issued, history>>

-----------------------------------------------------------------------------
(* The initial database: views 1..3 on T1, view 4 on T2.                   *)

InitViewType(v) ==
    CASE v = 2 -> "form" [] v = 3 -> "kanban" [] OTHER -> "grid"

InitViews ==
    [v \in 1..4 |-> [table |-> IF v = 4 THEN "T2" ELSE "T1",
                     type |-> InitViewType(v), name |-> "a", order |-> v,
                     slug |-> NoSlug, public |-> FALSE]]

InitRows == [i \in RowIds |-> [val |-> [f \in 1..3 |-> "a"], links |-> {}]]

InitCommon ==
    /\ filters = {}
    /\ sorts = {}
    /\ options = {}
    /\ seq = [sort |-> 0, filter |-> 0, option |-> 0, view |-> 4]
    /\ issued = {}
    /\ history = [v \in ViewIds |-> {}]
    /\ req = [r \in Reqs |-> Idle]

-----------------------------------------------------------------------------
(* SpecSort: create-sort and update-sort requests, one at a time.          *)
(* SpecSortRace: two of them at a time.                                    *)

Orders == {"ASC", "DESC"}

InitSort ==
    /\ InitCommon
    /\ views = InitViews
    /\ rows = InitRows

NextSort ==
    \E r \in OneReq :
        \/ \E v \in {1, 2, 5}, f \in FieldIds, o \in Orders :
                ViewSortingsView_post_get_view(r, v, f, o)
        \/ ViewSortingsView_post_create_sort(r)
        \/ ViewSortingsView_post_commit(r)
        \/ \E s \in 1..MaxSorts, f \in {0} \cup FieldIds, o \in {""} \cup Orders :
                ViewSortView_patch_get_sort(r, s, f, o)
        \/ ViewSortView_patch_update_sort(r)
        \/ ViewSortView_patch_commit(r)

SpecSort == InitSort /\ [][NextSort]_vars

\* The racing requests: sorts of view 1 on its text fields.
NextSortRace ==
    \E r \in Reqs :
        \/ \E f \in {1, 2} : ViewSortingsView_post_get_view(r, 1, f, "ASC")
        \/ ViewSortingsView_post_create_sort(r)
        \/ ViewSortingsView_post_commit(r)
        \/ \E s \in 1..MaxSorts : ViewSortView_patch_get_sort(r, s, 3, "")
        \/ ViewSortView_patch_update_sort(r)
        \/ ViewSortView_patch_commit(r)

SpecSortRace == InitSort /\ [][NextSortRace]_vars

-----------------------------------------------------------------------------
(* ViewHandler: public sharing.                                            *)

Users == {"anon", "member", "outsider"}

\* group.has_user(user): the one workspace of the model has one member.
has_user(u) == u = "member"

ViewsWithSlug(slug) == {v \in DOMAIN views : views[v].slug = slug}

\* Access for the publicly shared views alone.
PublicPathAccess_PublicOnly(user, view) == view.public

\* Access for every authenticated user.
PublicPathAccess_Authenticated(user, view) == view.public \/ user # "anon"

\* Who may resolve a view by its slug: anyone if the view is publicly shared,
\* else an authenticated user with access to the view's group.
PublicPathAccess(user, view) == view.public \/ has_user(user)

\* get_public_view_by_slug(user, slug): the id of the view, 0 for
\* ViewDoesNotExist.  View.slug is unique: at most one view matches.
get_public_view_by_slug(user, slug) ==
    IF slug = NoSlug \/ ViewsWithSlug(slug) = {} THEN 0
    ELSE LET v == CHOOSE w \in ViewsWithSlug(slug) : TRUE
         IN  IF PublicPathAccess(user, views[v]) THEN v ELSE 0

\* rotate_view_slug: the exception it raises on the fetched view, or "none".
rotate_view_slug_exception(view) ==
    IF ~view_type_registry[view.type].can_share THEN "CannotShareViewTypeError"
    ELSE "none"

\* A generator that may hand out a token again.
NewSlugs_Reused == Slugs \ InitSlugs

\* View.create_new_slug: a random token; none is handed out twice.
NewSlugs == Slugs \ (InitSlugs \cup issued)

\* update_view: the type of a view cannot be changed; a request that supplies
\* another type than the view has is refused as an invalid request.
update_view_exception(view, arg) ==
    IF arg.type # "" /\ arg.type # view.type THEN "RequestBodyValidationException"
    ELSE "none"

\* update_view: the row after the partial update of the fetched view.
update_view_row(view, arg) ==
    [view EXCEPT !.name = IF arg.name = "" THEN @ ELSE arg.name,
                 !.public = IF arg.public = "" THEN @ ELSE arg.public = "T"]

-----------------------------------------------------------------------------
(* RotateViewSlugView.post: rotate the slug of a view.                     *)

\* The map without its CannotShareViewTypeError entry.
RotateViewSlugView_post_map_exceptions_NoCannotShare(exc) ==
    CASE exc = "UserNotInGroup" -> "ERROR_USER_NOT_IN_GROUP"
      [] exc = "ViewDoesNotExist" -> "ERROR_VIEW_DOES_NOT_EXIST"
      [] OTHER -> "ERROR_500"

RotateViewSlugView_post_map_exceptions(exc) ==
    CASE exc = "UserNotInGroup" -> "ERROR_USER_NOT_IN_GROUP"
      [] exc = "ViewDoesNotExist" -> "ERROR_VIEW_DOES_NOT_EXIST"
      [] exc = "CannotShareViewTypeError" -> "ERROR_CANNOT_SHARE_VIEW_TYPE"
      [] OTHER -> "ERROR_500"

\* view = ViewHandler().get_view(view_id): a plain read, no row lock.
RotateViewSlugView_post_get_view(r, view_id) ==
    LET arg == [NoArg EXCEPT !.view = view_id]
    IN  /\ Free(r)
        /\ IF ViewExists(view_id)
           THEN Fetched(r, "rotate_view_slug", arg, views[view_id], NoSort, {})
           ELSE Reject(r, "rotate_view_slug", arg,
                    RotateViewSlugView_post_map_exceptions("ViewDoesNotExist"))
        /\ UNCHANGED <<persisted, seq, issued, history>>

\* handler.rotate_view_slug(user, view): the check, the new token and
\* view.save(), an UPDATE of the view's row, which waits for the row's lock.
RotateViewSlugView_post_rotate_view_slug(r) ==
    LET exc == rotate_view_slug_exception(req[r].view)
        row == <<"view", req[r].arg.view>>
    IN  /\ req[r].pc = "fetched"
        /\ req[r].op = "rotate_view_slug"
        /\ IF exc # "none"
           THEN /\ Respond(r, RotateViewSlugView_post_map_exceptions(exc), {})
                /\ UNCHANGED issued
           ELSE /\ row \notin LockedByOther(r)
                /\ \E t \in NewSlugs :
                      /\ issued' = issued \cup {t}
                      /\ req' = [req EXCEPT ![r].pc = "written",
                                            ![r].token = t,
                                            ![r].locks = {row}]
        /\ UNCHANGED <<persisted, seq, history>>

\* transaction.atomic: the commit replaces the row by the saved copy.
RotateViewSlugView_post_commit(r) ==
    LET v == req[r].arg.view
    IN  /\ req[r].pc = "written"
        /\ req[r].op = "rotate_view_slug"
        /\ views' = [views EXCEPT ![v] = [req[r].view EXCEPT !.slug = req[r].token]]
        /\ history' = [history EXCEPT ![v] = @ \cup ({views[v].slug} \ {NoSlug})]
        /\ Respond(r, "OK", {v})
        /\ UNCHANGED <<filters, sorts, options, rows, seq, issued>>

-----------------------------------------------------------------------------
(* ViewView.patch: update a view.                                          *)

ViewView_patch_map_exceptions(exc) ==
    CASE exc = "ViewDoesNotExist" -> "ERROR_VIEW_DOES_NOT_EXIST"
      [] exc = "UserNotInGroup" -> "ERROR_USER_NOT_IN_GROUP"
      [] OTHER -> "ERROR_500"

\* A fetch of the view that locks nothing.
ViewView_patch_locks_None(view_id) == {}

\* get_view(view_id, base_queryset=View.objects.select_for_update())
ViewView_patch_locks(view_id) == {<<"view", view_id>>}

\* The request data: the type, the name and the sharing flag, each "" when the
\* request does not supply it.
ViewView_patch_get_view(r, view_id, type, name, public) ==
    LET arg == [NoArg EXCEPT !.view = view_id, !.type = type, !.name = name,
                             !.public = public]
    IN  /\ Free(r)
        /\ ViewView_patch_locks(view_id) \cap LockedByOther(r) = {}
        /\ IF ViewExists(view_id)
           THEN Fetched(r, "update_view", arg, views[view_id], NoSort,
                        ViewView_patch_locks(view_id))
           ELSE Reject(r, "update_view", arg,
                    ViewView_patch_map_exceptions("ViewDoesNotExist"))
        /\ UNCHANGED <<persisted, seq, issued, history>>

\* The endpoint takes the type of the request data and stores it.
ViewView_patch_update_view_TypeFromData(r) ==
    LET v == req[r].arg.view
        row == update_view_row(req[r].view, req[r].arg)
    IN  /\ req[r].pc = "fetched"
        /\ req[r].op = "update_view"
        /\ views' = [views EXCEPT ![v] =
                        [row EXCEPT !.type = IF req[r].arg.type = "" THEN @
                                             ELSE req[r].arg.type]]
        /\ Respond(r, "OK", {v})
        /\ UNCHANGED <<filters, sorts, options, rows, seq, issued, history>>

\* validate_data_custom_fields(view_type.type, ..., request.data, partial=True),
\* which answers ERROR_REQUEST_BODY_VALIDATION itself, then
\* ViewHandler().update_view(request.user, view, **data) and the commit.
ViewView_patch_update_view(r) ==
    LET v == req[r].arg.view
        exc == update_view_exception(req[r].view, req[r].arg)
    IN  /\ req[r].pc = "fetched"
        /\ req[r].op = "update_view"
        /\ IF exc # "none"
           THEN /\ Respond(r, "ERROR_REQUEST_BODY_VALIDATION", {})
                /\ UNCHANGED views
           ELSE /\ views' = [views EXCEPT ![v] =
                                update_view_row(req[r].view, req[r].arg)]
                /\ Respond(r, "OK", {v})
        /\ UNCHANGED <<filters, sorts, options, rows, seq, issued, history>>

-----------------------------------------------------------------------------
(* SpecSlug: concurrent slug rotations and updates of the sharing flag.    *)

\* The views 1 and 3 start with or without a slug; no view is shared yet.
InitSlug ==
    /\ InitCommon
    /\ rows = InitRows
    /\ \E has \in SUBSET {1, 3} :
          views = [v \in 1..4 |->
                      [InitViews[v] EXCEPT
                          !.slug = IF v \in has THEN v ELSE NoSlug]]

NextSlug ==
    \E r \in Reqs :
        \/ \E v \in {1, 2, 3, 5} : RotateViewSlugView_post_get_view(r, v)
        \/ RotateViewSlugView_post_rotate_view_slug(r)
        \/ RotateViewSlugView_post_commit(r)
        \/ \E v \in {1, 5}, pub \in {"T", "F"} :
                ViewView_patch_get_view(r, v, "", "", pub)
        \/ ViewView_patch_update_view(r)

SpecSlug == InitSlug /\ [][NextSlug]_vars

-----------------------------------------------------------------------------
(* ViewHandler: filters and field options.                                 *)

FilterTypes == {"equal", "empty", "boolean"}

\* The field types a filter type accepts.
compatible_field_types(t) ==
    CASE t = "equal" -> {"text"}
      [] t = "empty" -> {"text", "link_row"}
      [] OTHER -> {"boolean"}

FiltersOf(v) == {x \in filters : x.view = v}

\* The predicate a filter compiles to, on row i of table T1.
FilterMatches(x, i) ==
    CASE x.type = "equal" -> rows[i].val[x.field] = x.value
      [] x.type = "empty" ->
            IF x.field = LinkField THEN rows[i].links = {}
            ELSE rows[i].val[x.field] = ""
      [] OTHER -> TRUE

\* apply_filters(view, queryset): the rows that satisfy all filters of the view.
apply_filters(v, queryset) ==
    {i \in queryset : \A x \in FiltersOf(v) : FilterMatches(x, i)}

\* create_filter: the exception it raises, or "none".
create_filter_exception(view, f, type) ==
    IF ~view_type_registry[view.type].can_filter THEN "ViewFilterNotSupported"
    ELSE IF FieldTable(f) # view.table THEN "FieldNotInTable"
    ELSE IF FieldType(f) \notin compatible_field_types(type)
        THEN "ViewFilterTypeNotAllowedForField"
    ELSE "none"

OptionsOf(v) == {o \in options : o.view = v}

\* view_type.get_visible_field_options_in_order(view)
get_visible_field_options_in_order(v) == {o \in OptionsOf(v) : ~o.hidden}

\* update_field_options: the exception it raises, or "none".
update_field_options_exception(view, fo) ==
    IF \E f \in DOMAIN fo : FieldTable(f) # view.table THEN "UnrelatedFieldError"
    ELSE "none"

FieldsOfTable(t) == {f \in FieldIds : FieldTable(f) = t}

\* A creation of field options that does not look at the rows of the others.
option_locks_NoUnique(v, fields) == {}

\* The creation of the field options of a view is idempotent (an upsert on
\* the unique pair of view and field): the INSERT of a pair holds the pair
\* until its transaction ends, another creator of the pair waits for it and
\* then finds the row.
option_locks(v, fields) == {<<"option", v, f>> : f \in fields}

-----------------------------------------------------------------------------
(* ViewFiltersView.post: create a filter.                                  *)

\* The map without its ViewFilterTypeNotAllowedForField entry.
ViewFiltersView_post_map_exceptions_NoTypeNotAllowed(exc) ==
    CASE exc = "ViewDoesNotExist" -> "ERROR_VIEW_DOES_NOT_EXIST"
      [] exc = "UserNotInGroup" -> "ERROR_USER_NOT_IN_GROUP"
      [] exc = "FieldNotInTable" -> "ERROR_FIELD_NOT_IN_TABLE"
      [] exc = "ViewFilterNotSupported" -> "ERROR_VIEW_FILTER_NOT_SUPPORTED"
      [] OTHER -> "ERROR_500"

ViewFiltersView_post_map_exceptions(exc) ==
    CASE exc = "ViewDoesNotExist" -> "ERROR_VIEW_DOES_NOT_EXIST"
      [] exc = "UserNotInGroup" -> "ERROR_USER_NOT_IN_GROUP"
      [] exc = "FieldNotInTable" -> "ERROR_FIELD_NOT_IN_TABLE"
      [] exc = "ViewFilterNotSupported" -> "ERROR_VIEW_FILTER_NOT_SUPPORTED"
      [] exc = "ViewFilterTypeNotAllowedForField" ->
            "ERROR_VIEW_FILTER_TYPE_UNSUPPORTED_FIELD"
      [] OTHER -> "ERROR_500"

\* view = view_handler.get_view(view_id): a plain read, no row lock.
ViewFiltersView_post_get_view(r, view_id, field, type, value) ==
    LET arg == [NoArg EXCEPT !.view = view_id, !.field = field, !.type = type,
                             !.value = value]
    IN  /\ Free(r)
        /\ IF ViewExists(view_id)
           THEN Fetched(r, "create_filter", arg, views[view_id], NoSort, {})
           ELSE Reject(r, "create_filter", arg,
                    ViewFiltersView_post_map_exceptions("ViewDoesNotExist"))
        /\ UNCHANGED <<persisted, seq, issued, history>>

\* view_handler.create_filter(user, view, field, type, value)
ViewFiltersView_post_create_filter(r) ==
    LET a == req[r].arg
        exc == create_filter_exception(req[r].view, a.field, a.type)
    IN  /\ req[r].pc = "fetched"
        /\ req[r].op = "create_filter"
        /\ IF exc # "none"
           THEN /\ Respond(r, ViewFiltersView_post_map_exceptions(exc), {})
                /\ UNCHANGED seq
           ELSE /\ seq.filter < MaxFilters
                /\ seq' = [seq EXCEPT !.filter = @ + 1]
                /\ req' = [req EXCEPT ![r].pc = "written",
                                      ![r].new = seq.filter + 1]
        /\ UNCHANGED <<persisted, issued, history>>

ViewFiltersView_post_commit(r) ==
    /\ req[r].pc = "written"
    /\ req[r].op = "create_filter"
    /\ view_fk_locks(req[r].arg.view) \cap LockedByOther(r) = {}
    /\ IF view_fk_exception(req[r].arg.view) # "none"
       THEN RolledBack(r)
       ELSE /\ filters' = filters \cup
                  {[id |-> req[r].new, view |-> req[r].arg.view,
                    field |-> req[r].arg.field, type |-> req[r].arg.type,
                    value |-> req[r].arg.value]}
            /\ Respond(r, "OK", {req[r].new})
            /\ UNCHANGED <<views, sorts, options, rows>>
    /\ UNCHANGED <<seq, issued, history>>

-----------------------------------------------------------------------------
(* ViewFieldOptionsView.patch: update the field options of a view.         *)

ViewFieldOptionsView_patch_map_exceptions(exc) ==
    CASE exc = "UserNotInGroup" -> "ERROR_USER_NOT_IN_GROUP"
      [] exc = "ViewDoesNotExist" -> "ERROR_VIEW_DOES_NOT_EXIST"
      [] exc = "UnrelatedFieldError" -> "ERROR_UNRELATED_FIELD"
      [] exc = "ViewDoesNotSupportFieldOptions" ->
            "ERROR_VIEW_DOES_NOT_SUPPORT_FIELD_OPTIONS"
      [] OTHER -> "ERROR_500"

\* view = handler.get_view(view_id).specific, then
\* view_type.get_field_options_serializer_class(create_if_missing=True), which
\* raises ValueError for a view type without field options; the endpoint does
\* not catch it.
ViewFieldOptionsView_patch_get_view(r, view_id, fo) ==
    LET arg == [NoArg EXCEPT !.view = view_id, !.fo = fo]
    IN  /\ Free(r)
        /\ IF ~ViewExists(view_id)
           THEN Reject(r, "update_field_options", arg,
                    ViewFieldOptionsView_patch_map_exceptions("ViewDoesNotExist"))
           ELSE IF ~view_type_registry[views[view_id].type].has_field_options
           THEN Reject(r, "update_field_options", arg,
                    ViewFieldOptionsView_patch_map_exceptions("ValueError"))
           ELSE Fetched(r, "update_field_options", arg, views[view_id],
                        NoSort, {})
        /\ UNCHANGED <<persisted, seq, issued, history>>

\* The fields of the request that have no row yet, each with the id its new
\* row takes: the ids after `base`, in field order.
NewOptionIds(v, fo, base) ==
    LET missing == {f \in DOMAIN fo : ~\E o \in OptionsOf(v) : o.field = f}
    IN  [f \in missing |-> base + Cardinality({g \in missing : g <= f})]

\* The endpoint without transaction.atomic: the upserts of the entries before
\* the one that raises stay.
ViewFieldOptionsView_patch_update_field_options_NoAtomic(r) ==
    LET a == req[r].arg
        exc == update_field_options_exception(req[r].view, a.fo)
        ins == NewOptionIds(a.view, a.fo, seq.option)
        valid == {f \in DOMAIN a.fo : FieldTable(f) = req[r].view.table}
    IN  /\ req[r].pc = "fetched"
        /\ req[r].op = "update_field_options"
        /\ IF exc # "none"
           THEN /\ Respond(r, ViewFieldOptionsView_patch_map_exceptions(exc), {})
                /\ options' =
                      {o \in options : ~(o.view = a.view /\ o.field \in valid)}
                      \cup {[id |-> o.id, view |-> o.view, field |-> o.field,
                             hidden |-> a.fo[o.field]] :
                                o \in {p \in OptionsOf(a.view) :
                                          p.field \in valid}}
                /\ UNCHANGED seq
           ELSE /\ seq.option + Cardinality(DOMAIN ins) <= MaxOptions
                /\ seq' = [seq EXCEPT !.option = @ + Cardinality(DOMAIN ins)]
                /\ req' = [req EXCEPT ![r].pc = "written", ![r].ins = ins]
                /\ UNCHANGED options
        /\ UNCHANGED <<views, filters, sorts, rows, issued, history>>

\* handler.update_field_options(user, view, field_options): the check, then
\* one upsert per entry of the map.
ViewFieldOptionsView_patch_update_field_options(r) ==
    LET a == req[r].arg
        exc == update_field_options_exception(req[r].view, a.fo)
        ins == NewOptionIds(a.view, a.fo, seq.option)
    IN  /\ req[r].pc = "fetched"
        /\ req[r].op = "update_field_options"
        /\ IF exc # "none"
           THEN /\ Respond(r, ViewFieldOptionsView_patch_map_exceptions(exc), {})
                /\ UNCHANGED seq
           ELSE /\ seq.option + Cardinality(DOMAIN ins) <= MaxOptions
                /\ option_locks(a.view, DOMAIN ins) \cap LockedByOther(r) = {}
                /\ seq' = [seq EXCEPT !.option = @ + Cardinality(DOMAIN ins)]
                /\ req' = [req EXCEPT ![r].pc = "written", ![r].ins = ins,
                                      ![r].locks =
                                          option_locks(a.view, DOMAIN ins)]
        /\ UNCHANGED <<persisted, issued, history>>

ViewFieldOptionsView_patch_commit(r) ==
    LET a == req[r].arg
        ins == req[r].ins
        updated == {[o EXCEPT !.hidden = a.fo[o.field]] :
                        o \in {p \in OptionsOf(a.view) :
                                  p.field \in DOMAIN a.fo \ DOMAIN ins}}
        created == {[id |-> ins[f], view |-> a.view, field |-> f,
                     hidden |-> a.fo[f]] : f \in DOMAIN ins}
        kept == {o \in options :
                    ~(o.view = a.view /\ o.field \in DOMAIN a.fo \ DOMAIN ins)}
    IN  /\ req[r].pc = "written"
        /\ req[r].op = "update_field_options"
        /\ created # {} => view_fk_locks(a.view) \cap LockedByOther(r) = {}
        /\ IF created # {} /\ view_fk_exception(a.view) # "none"
           THEN RolledBack(r)
           ELSE /\ options' = kept \cup updated \cup created
                /\ Respond(r, "OK", {a.view})
                /\ UNCHANGED <<views, filters, sorts, rows>>
        /\ UNCHANGED <<seq, issued, history>>

-----------------------------------------------------------------------------
(* PublicViewLinkRowFieldLookupView.get: the public link row lookup.       *)

PublicViewLinkRowFieldLookupView_get_map_exceptions(exc) ==
    CASE exc = "ViewDoesNotExist" -> "ERROR_VIEW_DOES_NOT_EXIST"
      [] exc = "FieldDoesNotExist" -> "ERROR_FIELD_DOES_NOT_EXIST"
      [] OTHER -> "ERROR_500"

\* A lookup that shares the views of every type.
lookup_view_NoSharingCheck(user, slug) == get_public_view_by_slug(user, slug)

\* view = handler.get_public_view_by_slug(request.user, slug).specific and
\* `if not view_type.can_share: raise ViewDoesNotExist`: the view, 0 for
\* ViewDoesNotExist.
lookup_view(user, slug) ==
    LET v == get_public_view_by_slug(user, slug)
    IN  IF v = 0 THEN 0
        ELSE IF ~view_type_registry[views[v].type].can_share THEN 0
        ELSE v

\* A field option lookup that matches fields of every type.
lookup_field_options_AnyType(v, field_id) ==
    {o \in get_visible_field_options_in_order(v) : o.field = field_id}

\* queryset.get(field_id=field_id, field__content_type=link_row_field_content_type)
\* on the visible field options of the view: the rows that match.
lookup_field_options(v, field_id) ==
    {o \in get_visible_field_options_in_order(v) :
        o.field = field_id /\ FieldType(o.field) = "link_row"}

\* A restriction that knows the views that can filter alone.
lookup_view_queryset_FilterableOnly(v) ==
    IF view_type_registry[views[v].type].can_filter
    THEN apply_filters(v, RowIds)
    ELSE {}

\* A restriction that leaves the filters of the view out.
lookup_view_queryset_Unfiltered(v) == RowIds

\* The rows of the view's table the restriction starts from: the filtered
\* rows if the view type can filter, else all rows.
lookup_view_queryset(v) ==
    IF view_type_registry[views[v].type].can_filter
    THEN apply_filters(v, RowIds)
    ELSE RowIds

\* view_queryset.values_list(f"field_{link_row_field.id}__id")
values_list(queryset, f) == UNION {rows[i].links : i \in queryset}

\* queryset.search_all_fields(search) on the rows of the link row table.
search_all_fields(queryset, search) ==
    {i \in queryset : TargetName(i) = search}

\* A lookup that restricts nothing.
lookup_queryset_Unrestricted(v, f) == TargetRowIds

\* The rows of the link row table the lookup returns, before the search.
lookup_queryset(v, f) ==
    IF view_type_registry[views[v].type].restrict_link_row_public_view_sharing
    THEN {i \in TargetRowIds : i \in values_list(lookup_view_queryset(v), f)}
    ELSE TargetRowIds

\* An endpoint that looks for the field option before it checks can_share.
PublicViewLinkRowFieldLookupView_get_FieldCheckFirst(user, slug, field_id, search) ==
    LET v == get_public_view_by_slug(user, slug)
        fail(exc) ==
            [status |-> PublicViewLinkRowFieldLookupView_get_map_exceptions(exc),
             ids |-> {}]
    IN  IF v = 0 THEN fail("ViewDoesNotExist")
        ELSE IF lookup_field_options(v, field_id) = {}
            THEN fail("FieldDoesNotExist")
        ELSE IF ~view_type_registry[views[v].type].can_share
            THEN fail("ViewDoesNotExist")
        ELSE [status |-> "OK",
              ids |-> IF search = "" THEN lookup_queryset(v, field_id)
                      ELSE search_all_fields(lookup_queryset(v, field_id),
                                             search)]

\* The response of the endpoint: its status and the ids of the rows of its
\* page (every row of the model fits in one page).
PublicViewLinkRowFieldLookupView_get(user, slug, field_id, search) ==
    LET v == lookup_view(user, slug)
        fail(exc) ==
            [status |-> PublicViewLinkRowFieldLookupView_get_map_exceptions(exc),
             ids |-> {}]
    IN  IF v = 0 THEN fail("ViewDoesNotExist")
        ELSE IF lookup_field_options(v, field_id) = {}
            THEN fail("FieldDoesNotExist")
        ELSE IF Cardinality(lookup_field_options(v, field_id)) > 1
            THEN fail("MultipleObjectsReturned")
        ELSE [status |-> "OK",
              ids |-> IF search = "" THEN lookup_queryset(v, field_id)
                      ELSE search_all_fields(lookup_queryset(v, field_id),
                                             search)]

\* The request: one read of the committed rows.
PublicViewLinkRowFieldLookupView_get_request(r, user, slug, field_id, search) ==
    LET arg == [NoArg EXCEPT !.user = user, !.slug = slug, !.field = field_id,
                             !.search = search]
        res == PublicViewLinkRowFieldLookupView_get(user, slug, field_id, search)
    IN  /\ Free(r)
        /\ req' = [req EXCEPT ![r] = [Idle EXCEPT !.pc = "done",
                      !.op = "lookup", !.arg = arg, !.status = res.status,
                      !.ids = res.ids]]
        /\ UNCHANGED <<persisted, seq, issued, history>>

-----------------------------------------------------------------------------
(* SpecPublic: the public lookup on view 1, one request at a time.         *)

\* View 1 is of any type, holds slug 1 and is shared or not; row 1 of T1 has
\* value "a" in field 1 and one or two links, row 2 has value "b" and links
\* to row 2 of T2.
InitPublic ==
    /\ InitCommon
    /\ \E t \in ViewTypes, pub \in BOOLEAN :
          views = [InitViews EXCEPT ![1].type = t, ![1].slug = 1,
                                    ![1].public = pub]
    /\ \E l \in {{1}, {1, 2}} :
          rows = [InitRows EXCEPT ![1].links = l,
                                  ![2].val[1] = "b", ![2].links = {2}]

NextPublic ==
    \E r \in OneReq :
        \/ \E x \in Values : ViewFiltersView_post_get_view(r, 1, 1, "equal", x)
        \/ \E t \in {"equal", "empty"} :
                ViewFiltersView_post_get_view(r, 1, LinkField, t, "a")
        \/ ViewFiltersView_post_create_filter(r)
        \/ ViewFiltersView_post_commit(r)
        \/ \E f \in {1, LinkField, 5}, h \in BOOLEAN :
                ViewFieldOptionsView_patch_get_view(r, 1, [g \in {f} |-> h])
        \/ ViewFieldOptionsView_patch_update_field_options(r)
        \/ ViewFieldOptionsView_patch_commit(r)
        \/ \E u \in Users, f \in {1, LinkField} :
                PublicViewLinkRowFieldLookupView_get_request(r, u, 1, f, "")
        \/ \E sl \in {1, 2}, x \in {"", "a"} :
                PublicViewLinkRowFieldLookupView_get_request(r, "anon", sl,
                                                             LinkField, x)

SpecPublic == InitPublic /\ [][NextPublic]_vars

-----------------------------------------------------------------------------
(* ViewHandler: the order of the views of a table.                         *)

ViewsOfTable(t) == {v \in DOMAIN views : views[v].table = t}

\* The position of id in the list: the index of its first entry, counted
\* from 0.
IndexOf(order, id) ==
    (CHOOSE i \in 1..Len(order) :
        /\ order[i] = id
        /\ \A j \in 1..(i - 1) : order[j] # id) - 1

\* TableHandler().get_table(table_id)
get_table_exception(table_id) ==
    IF table_id \in Tables THEN "" ELSE "TableDoesNotExist"

\* order_views(user, table, order): what it raises ("" when it goes through).
order_views_exception(user, table, order) ==
    IF ~has_user(user) THEN "UserNotInGroup"
    ELSE IF \E i \in 1..Len(order) : order[i] \notin ViewsOfTable(table)
    THEN "ViewNotInTable"
    ELSE ""

\* The batch update of order_views: a listed view gets its index in the
\* list, a view of the table that is not listed gets 0, the views of the
\* other tables are not part of the update.
order_objects(table, order) ==
    [v \in DOMAIN views |->
        IF views[v].table # table THEN views[v]
        ELSE IF \E i \in 1..Len(order) : order[i] = v
        THEN [views[v] EXCEPT !.order = IndexOf(order, v)]
        ELSE [views[v] EXCEPT !.order = 0]]

-----------------------------------------------------------------------------
(* OrderViewsView.post: order the views of a table.                        *)

\* A map without ViewNotInTable.
OrderViewsView_post_map_exceptions_NoViewNotInTable(exc) ==
    CASE exc = "TableDoesNotExist" -> "ERROR_TABLE_DOES_NOT_EXIST"
      [] exc = "UserNotInGroup" -> "ERROR_USER_NOT_IN_GROUP"
      [] OTHER -> "ERROR_500"

OrderViewsView_post_map_exceptions(exc) ==
    CASE exc = "TableDoesNotExist" -> "ERROR_TABLE_DOES_NOT_EXIST"
      [] exc = "UserNotInGroup" -> "ERROR_USER_NOT_IN_GROUP"
      [] exc = "ViewNotInTable" -> "ERROR_VIEW_NOT_IN_TABLE"
      [] OTHER -> "ERROR_500"

\* The endpoint answers 204 without the call of order_views.
OrderViewsView_post_NoOrderViews(r, table_id, user, view_ids) ==
    LET arg == [NoArg EXCEPT !.table = table_id, !.user = user,
                             !.ids = view_ids]
        exc == get_table_exception(table_id)
    IN  /\ Free(r)
        /\ IF exc # ""
           THEN Reject(r, "order_views", arg,
                       OrderViewsView_post_map_exceptions(exc))
           ELSE req' = [req EXCEPT ![r] =
                           [Idle EXCEPT !.pc = "done", !.op = "order_views",
                                        !.arg = arg, !.status = "OK"]]
        /\ UNCHANGED <<views, filters, sorts, options, rows, seq, issued,
                       history>>

\* The whole request, in one transaction (transaction.atomic): get_table,
\* then order_views, whose write is one UPDATE statement; an exception
\* leaves the views as they are.
OrderViewsView_post(r, table_id, user, view_ids) ==
    LET arg == [NoArg EXCEPT !.table = table_id, !.user = user,
                             !.ids = view_ids]
        exc == IF get_table_exception(table_id) # ""
               THEN get_table_exception(table_id)
               ELSE order_views_exception(user, table_id, view_ids)
    IN  /\ Free(r)
        /\ IF exc # ""
           THEN /\ Reject(r, "order_views", arg,
                          OrderViewsView_post_map_exceptions(exc))
                /\ UNCHANGED views
           ELSE /\ views' = order_objects(table_id, view_ids)
                /\ req' = [req EXCEPT ![r] =
                              [Idle EXCEPT !.pc = "done",
                                           !.op = "order_views",
                                           !.arg = arg, !.status = "OK"]]
        /\ UNCHANGED <<filters, sorts, options, rows, seq, issued, history>>

-----------------------------------------------------------------------------
(* SpecOrder: order requests on the tables, one at a time.                 *)

RECURSIVE ListsOver(_, _)
\* The lists of at most n distinct ids of S.
ListsOver(S, n) ==
    IF n = 0 THEN {<<>>}
    ELSE LET shorter == ListsOver(S, n - 1)
         IN  shorter \cup
             {Append(l, x) : l \in {m \in shorter : Len(m) = n - 1},
                             x \in S}

Distinct(l) == \A i, j \in 1..Len(l) : i # j => l[i] # l[j]

\* The view_ids of the requests: the lists of distinct ids of the views 1..4
\* and two lists that name a view twice.
OrderLists ==
    {l \in ListsOver(1..4, MaxOrderLen) : Distinct(l)}
        \cup {<<1, 1>>, <<3, 1, 3>>}

InitOrder ==
    /\ InitCommon
    /\ views = InitViews
    /\ rows = InitRows

NextOrder ==
    \E r \in OneReq :
        \E t \in Tables \cup {"T0"}, u \in {"member", "outsider"},
           l \in OrderLists :
            OrderViewsView_post(r, t, u, l)

SpecOrder == InitOrder /\ [][NextOrder]_vars

-----------------------------------------------------------------------------
(* ViewView.delete: delete a view.                                         *)

ViewView_delete_map_exceptions(exc) ==
    CASE exc = "ViewDoesNotExist" -> "ERROR_VIEW_DOES_NOT_EXIST"
      [] exc = "UserNotInGroup" -> "ERROR_USER_NOT_IN_GROUP"
      [] OTHER -> "ERROR_500"

\* The row locks the fetch takes: ViewHandler().get_view(view_id) is a plain
\* read, it locks nothing.
ViewView_delete_locks(view_id) == {}

\* view = ViewHandler().get_view(view_id)
ViewView_delete_get_view(r, view_id, user) ==
    LET arg == [NoArg EXCEPT !.view = view_id, !.user = user]
    IN  /\ Free(r)
        /\ ViewView_delete_locks(view_id) \cap LockedByOther(r) = {}
        /\ IF ViewExists(view_id)
           THEN Fetched(r, "delete_view", arg, views[view_id], NoSort,
                        ViewView_delete_locks(view_id))
           ELSE Reject(r, "delete_view", arg,
                    ViewView_delete_map_exceptions("ViewDoesNotExist"))
        /\ UNCHANGED <<persisted, seq, issued, history>>

\* ViewHandler().delete_view(request.user, view): the check of the user, then
\* the DELETE of the fetched view and of what hangs on it.  The DELETE waits
\* for the row while another transaction holds it; a DELETE that finds its
\* row gone deletes nothing and raises nothing.
ViewView_delete_delete_view(r) ==
    LET a == req[r].arg
    IN  /\ req[r].pc = "fetched"
        /\ req[r].op = "delete_view"
        /\ IF ~has_user(a.user)
           THEN Respond(r, ViewView_delete_map_exceptions("UserNotInGroup"), {})
           ELSE /\ <<"view", a.view>> \notin LockedByOther(r)
                /\ req' = [req EXCEPT ![r].pc = "written",
                                      ![r].locks = {<<"view", a.view>>}]
        /\ UNCHANGED <<persisted, seq, issued, history>>

\* The commit deletes the row of the view alone.
ViewView_delete_commit_KeepsSettings(r) ==
    LET v == req[r].arg.view
    IN  /\ req[r].pc = "written"
        /\ req[r].op = "delete_view"
        /\ views' = [w \in DOMAIN views \ {v} |-> views[w]]
        /\ Respond(r, "OK", {v})
        /\ UNCHANGED <<filters, sorts, options, rows, seq, issued, history>>

\* transaction.atomic: the commit removes the view with its filters, sorts
\* and field options, and the endpoint answers 204.
ViewView_delete_commit(r) ==
    LET v == req[r].arg.view
    IN  /\ req[r].pc = "written"
        /\ req[r].op = "delete_view"
        /\ views' = [w \in DOMAIN views \ {v} |-> views[w]]
        /\ filters' = filters \ FiltersOf(v)
        /\ sorts' = sorts \ SortsOf(v)
        /\ options' = options \ OptionsOf(v)
        /\ Respond(r, "OK", {v})
        /\ UNCHANGED <<rows, seq, issued, history>>

-----------------------------------------------------------------------------
(* SpecDelete: views 1 and 4 get filters, sorts and field options and are  *)
(* deleted, one request at a time.  SpecDeleteRace: two delete requests at *)
(* a time.                                                                 *)

\* The text field of the table of views 1 and 4.
TextFieldOf(v) == IF v = 4 THEN 5 ELSE 1

InitDelete ==
    /\ InitCommon
    /\ views = InitViews
    /\ rows = InitRows

NextDelete ==
    \E r \in OneReq :
        \/ \E v \in {1, 4} :
                ViewFiltersView_post_get_view(r, v, TextFieldOf(v), "equal", "a")
        \/ ViewFiltersView_post_create_filter(r)
        \/ ViewFiltersView_post_commit(r)
        \/ \E v \in {1, 4} :
                ViewSortingsView_post_get_view(r, v, TextFieldOf(v), "ASC")
        \/ ViewSortingsView_post_create_sort(r)
        \/ ViewSortingsView_post_commit(r)
        \/ \E v \in {1, 4} :
                ViewFieldOptionsView_patch_get_view(r, v,
                    [g \in {TextFieldOf(v)} |-> FALSE])
        \/ ViewFieldOptionsView_patch_update_field_options(r)
        \/ ViewFieldOptionsView_patch_commit(r)
        \/ \E v \in {1, 4, 5}, u \in {"member", "outsider"} :
                ViewView_delete_get_view(r, v, u)
        \/ ViewView_delete_delete_view(r)
        \/ ViewView_delete_commit(r)

SpecDelete == InitDelete /\ [][NextDelete]_vars

NextDeleteRace ==
    \E r \in Reqs :
        \/ \E v \in {1, 2, 5}, u \in {"member", "outsider"} :
                ViewView_delete_get_view(r, v, u)
        \/ ViewView_delete_delete_view(r)
        \/ ViewView_delete_commit(r)

SpecDeleteRace == InitDelete /\ [][NextDeleteRace]_vars

-----------------------------------------------------------------------------
(* ViewHandler: update of a filter.                                        *)

FilterById(id) == CHOOSE x \in filters : x.id = id

FilterExists(id) == \E x \in filters : x.id = id

\* update_filter: the field, the type and the value the filter gets (partial
\* update: an attribute that is not supplied stays).
update_filter_field(filter, arg) ==
    IF arg.field = 0 THEN filter.field ELSE arg.field

update_filter_type(filter, arg) ==
    IF arg.type = "" THEN filter.type ELSE arg.type

update_filter_value(filter, arg) ==
    IF arg.value = "" THEN filter.value ELSE arg.value

\* update_filter: the exception it raises, or "none".
update_filter_exception(filter, arg) ==
    LET f == update_filter_field(filter, arg)
        t == update_filter_type(filter, arg)
    IN  IF FieldTable(f) # views[filter.view].table THEN "FieldNotInTable"
        ELSE IF FieldType(f) \notin compatible_field_types(t)
            THEN "ViewFilterTypeNotAllowedForField"
        ELSE "none"

-----------------------------------------------------------------------------
(* ViewFilterView.patch: update a filter.                                  *)

\* The map without its FieldNotInTable entry.
ViewFilterView_patch_map_exceptions_NoFieldNotInTable(exc) ==
    CASE exc = "ViewFilterDoesNotExist" -> "ERROR_VIEW_FILTER_DOES_NOT_EXIST"
      [] exc = "UserNotInGroup" -> "ERROR_USER_NOT_IN_GROUP"
      [] exc = "ViewFilterTypeNotAllowedForField" ->
            "ERROR_VIEW_FILTER_TYPE_UNSUPPORTED_FIELD"
      [] OTHER -> "ERROR_500"

ViewFilterView_patch_map_exceptions(exc) ==
    CASE exc = "ViewFilterDoesNotExist" -> "ERROR_VIEW_FILTER_DOES_NOT_EXIST"
      [] exc = "UserNotInGroup" -> "ERROR_USER_NOT_IN_GROUP"
      [] exc = "FieldNotInTable" -> "ERROR_FIELD_NOT_IN_TABLE"
      [] exc = "ViewFilterTypeNotAllowedForField" ->
            "ERROR_VIEW_FILTER_TYPE_UNSUPPORTED_FIELD"
      [] OTHER -> "ERROR_500"

\* The row locks get_filter takes: select_for_update on the ViewFilter row.
ViewFilterView_patch_locks(view_filter_id) == {<<"filter", view_filter_id>>}

\* handler.get_filter(user, id,
\*     base_queryset=ViewFilter.objects.select_for_update())
ViewFilterView_patch_get_filter(r, view_filter_id, field, type, value) ==
    LET arg == [NoArg EXCEPT !.id = view_filter_id, !.field = field,
                             !.type = type, !.value = value]
    IN  /\ Free(r)
        /\ ViewFilterView_patch_locks(view_filter_id) \cap LockedByOther(r) = {}
        /\ IF FilterExists(view_filter_id)
           THEN req' = [req EXCEPT ![r] =
                   [Idle EXCEPT !.pc = "fetched", !.op = "update_filter",
                                !.arg = arg,
                                !.filter = FilterById(view_filter_id),
                                !.locks =
                                    ViewFilterView_patch_locks(view_filter_id)]]
           ELSE Reject(r, "update_filter", arg,
                    ViewFilterView_patch_map_exceptions("ViewFilterDoesNotExist"))
        /\ UNCHANGED <<persisted, seq, issued, history>>

\* handler.update_filter(user, view_filter, **data): the checks, then the
\* UPDATE.
ViewFilterView_patch_update_filter(r) ==
    LET exc == update_filter_exception(req[r].filter, req[r].arg)
    IN  /\ req[r].pc = "fetched"
        /\ req[r].op = "update_filter"
        /\ IF exc # "none"
           THEN Respond(r, ViewFilterView_patch_map_exceptions(exc), {})
           ELSE req' = [req EXCEPT ![r].pc = "written"]
        /\ UNCHANGED <<persisted, seq, issued, history>>

ViewFilterView_patch_commit(r) ==
    LET old == req[r].filter
        new == [old EXCEPT !.field = update_filter_field(old, req[r].arg),
                           !.type = update_filter_type(old, req[r].arg),
                           !.value = update_filter_value(old, req[r].arg)]
    IN  /\ req[r].pc = "written"
        /\ req[r].op = "update_filter"
        /\ filters' = (filters \ {x \in filters : x.id = old.id}) \cup {new}
        /\ Respond(r, "OK", {old.id})
        /\ UNCHANGED <<views, sorts, options, rows, seq, issued, history>>

-----------------------------------------------------------------------------
(* SpecFilter: filters and sorts are created and updated on the views of   *)
(* every type and with the fields of both tables, one request at a time.   *)

\* The field and the filter type of the create requests: pairs that fit, and
\* the link row field with a type that does not accept it.
FilterRequests ==
    {<<1, "equal">>, <<LinkField, "equal">>, <<LinkField, "empty">>,
     <<5, "equal">>}

InitFilter ==
    /\ InitCommon
    /\ views = InitViews
    /\ rows = InitRows

NextFilter ==
    \E r \in OneReq :
        \/ \E v \in {1, 2, 4}, q \in FilterRequests :
                ViewFiltersView_post_get_view(r, v, q[1], q[2], "a")
        \/ ViewFiltersView_post_get_view(r, 5, 1, "equal", "a")
        \/ ViewFiltersView_post_create_filter(r)
        \/ ViewFiltersView_post_commit(r)
        \/ \E x \in 1..MaxFilters, f \in {1, LinkField, 5} :
                ViewFilterView_patch_get_filter(r, x, f, "", "")
        \/ ViewFilterView_patch_update_filter(r)
        \/ ViewFilterView_patch_commit(r)
        \/ \E v \in {1, 2, 4}, f \in {1, 5} :
                ViewSortingsView_post_get_view(r, v, f, "ASC")
        \/ ViewSortingsView_post_create_sort(r)
        \/ ViewSortingsView_post_commit(r)
        \/ \E s \in 1..MaxSorts, f \in {2, 5} :
                ViewSortView_patch_get_sort(r, s, f, "")
        \/ ViewSortView_patch_update_sort(r)
        \/ ViewSortView_patch_commit(r)

SpecFilter == InitFilter /\ [][NextFilter]_vars

-----------------------------------------------------------------------------
(* SpecView: the views are updated, rotated, ordered and deleted, one      *)
(* request at a time.                                                      *)

InitView ==
    /\ InitCommon
    /\ views = InitViews
    /\ rows = InitRows

NextView ==
    \E r \in OneReq :
        \/ \E v \in {1, 2, 5}, t \in {"", "form"},
              d \in {<<"b", "">>, <<"", "T">>} :
                ViewView_patch_get_view(r, v, t, d[1], d[2])
        \/ ViewView_patch_update_view(r)
        \/ RotateViewSlugView_post_get_view(r, 1)
        \/ RotateViewSlugView_post_rotate_view_slug(r)
        \/ RotateViewSlugView_post_commit(r)
        \/ OrderViewsView_post(r, "T1", "member", <<2, 1>>)
        \/ ViewView_delete_get_view(r, 2, "member")
        \/ ViewView_delete_delete_view(r)
        \/ ViewView_delete_commit(r)

SpecView == InitView /\ [][NextView]_vars

-----------------------------------------------------------------------------
(* ViewFieldOptionsView.get: read the field options of a view.  The        *)
(* endpoint has no transaction.atomic: each statement commits on its own.  *)

ViewFieldOptionsView_get_map_exceptions(exc) ==
    CASE exc = "UserNotInGroup" -> "ERROR_USER_NOT_IN_GROUP"
      [] exc = "ViewDoesNotExist" -> "ERROR_VIEW_DOES_NOT_EXIST"
      [] exc = "ViewDoesNotSupportFieldOptions" ->
            "ERROR_VIEW_DOES_NOT_SUPPORT_FIELD_OPTIONS"
      [] OTHER -> "ERROR_500"

\* view = ViewHandler().get_view(view_id).specific, group.has_user(...), and
\* get_field_options_serializer_class(create_if_missing=True), whose
\* ValueError the endpoint turns into ViewDoesNotSupportFieldOptions.
ViewFieldOptionsView_get_get_view(r, view_id, user) ==
    LET arg == [NoArg EXCEPT !.view = view_id, !.user = user]
        exc == IF ~ViewExists(view_id) THEN "ViewDoesNotExist"
               ELSE IF ~has_user(user) THEN "UserNotInGroup"
               ELSE IF ~view_type_registry[views[view_id].type].has_field_options
               THEN "ViewDoesNotSupportFieldOptions"
               ELSE "none"
    IN  /\ Free(r)
        /\ IF exc # "none"
           THEN Reject(r, "get_field_options", arg,
                       ViewFieldOptionsView_get_map_exceptions(exc))
           ELSE Fetched(r, "get_field_options", arg, views[view_id], NoSort, {})
        /\ UNCHANGED <<persisted, seq, issued, history>>

\* serializer_class(view).data, first part: the read of the field options of
\* the view, which finds the fields of the table that have no row yet.
ViewFieldOptionsView_get_field_options(r) ==
    LET a == req[r].arg
        ins == NewOptionIds(a.view,
                            [f \in FieldsOfTable(req[r].view.table) |-> FALSE],
                            seq.option)
    IN  /\ req[r].pc = "fetched"
        /\ req[r].op = "get_field_options"
        /\ seq.option + Cardinality(DOMAIN ins) <= MaxOptions
        /\ seq' = [seq EXCEPT !.option = @ + Cardinality(DOMAIN ins)]
        /\ req' = [req EXCEPT ![r].pc = "written", ![r].ins = ins]
        /\ UNCHANGED <<persisted, issued, history>>

\* A read that creates no row (create_if_missing left out).
ViewFieldOptionsView_get_create_missing_NoCreate(r) ==
    /\ req[r].pc = "written"
    /\ req[r].op = "get_field_options"
    /\ Respond(r, "OK", {req[r].arg.view})
    /\ UNCHANGED <<persisted, seq, issued, history>>

\* serializer_class(view).data, second part: the creation of the missing
\* rows (create_if_missing) and the response.  A pair another transaction is
\* creating is waited for; a pair that has its row by now is left alone.
ViewFieldOptionsView_get_create_missing(r) ==
    LET a == req[r].arg
        ins == req[r].ins
        todo == {f \in DOMAIN ins :
                    \/ option_locks(a.view, {f}) = {}
                    \/ ~\E o \in OptionsOf(a.view) : o.field = f}
    IN  /\ req[r].pc = "written"
        /\ req[r].op = "get_field_options"
        /\ option_locks(a.view, DOMAIN ins) \cap LockedByOther(r) = {}
        /\ todo # {} => view_fk_locks(a.view) \cap LockedByOther(r) = {}
        /\ IF todo # {} /\ view_fk_exception(a.view) # "none"
           THEN RolledBack(r)
           ELSE /\ options' = options \cup
                      {[id |-> ins[f], view |-> a.view, field |-> f,
                        hidden |-> FALSE] : f \in todo}
                /\ Respond(r, "OK", {a.view})
                /\ UNCHANGED <<views, filters, sorts, rows>>
        /\ UNCHANGED <<seq, issued, history>>

-----------------------------------------------------------------------------
(* SpecOptions: the field options of the views are updated and read, one   *)
(* request at a time.  SpecOptionsRace: two requests at a time create the  *)
(* field options of view 4 and its one field.                              *)

\* The maps of the update requests: one field or two, of which one may be of
\* the other table.
OptionMaps ==
    {[g \in {f} |-> h] : f \in {1, 5}, h \in BOOLEAN}
        \cup {[g \in {1, 5} |-> TRUE], [g \in {1, 2} |-> TRUE]}

InitOptions ==
    /\ InitCommon
    /\ views = InitViews
    /\ rows = InitRows

NextOptions ==
    \E r \in OneReq :
        \/ \E v \in {1, 3, 4, 5}, fo \in OptionMaps :
                ViewFieldOptionsView_patch_get_view(r, v, fo)
        \/ ViewFieldOptionsView_patch_update_field_options(r)
        \/ ViewFieldOptionsView_patch_commit(r)
        \/ \E v \in {3, 4, 5}, u \in {"member", "outsider"} :
                ViewFieldOptionsView_get_get_view(r, v, u)
        \/ ViewFieldOptionsView_get_field_options(r)
        \/ ViewFieldOptionsView_get_create_missing(r)

SpecOptions == InitOptions /\ [][NextOptions]_vars

NextOptionsRace ==
    \E r \in Reqs :
        \/ \E h \in BOOLEAN :
                ViewFieldOptionsView_patch_get_view(r, 4, [g \in {5} |-> h])
        \/ ViewFieldOptionsView_patch_update_field_options(r)
        \/ ViewFieldOptionsView_patch_commit(r)
        \/ ViewFieldOptionsView_get_get_view(r, 4, "member")
        \/ ViewFieldOptionsView_get_field_options(r)
        \/ ViewFieldOptionsView_get_create_missing(r)

SpecOptionsRace == InitOptions /\ [][NextOptionsRace]_vars

-----------------------------------------------------------------------------
(* SpecUpdateRace: two requests at a time update view 1, its filter 1 and  *)
(* its sort 1, each a part of the row.                                     *)

\* View 1 has filter 1 and sort 1 on its field 1.
InitUpdateRace ==
    /\ views = InitViews
    /\ rows = InitRows
    /\ filters = {[id |-> 1, view |-> 1, field |-> 1, type |-> "equal",
                   value |-> "a"]}
    /\ sorts = {[id |-> 1, view |-> 1, field |-> 1, order |-> "ASC"]}
    /\ options = {}
    /\ seq = [sort |-> 1, filter |-> 1, option |-> 0, view |-> 4]
    /\ issued = {}
    /\ history = [v \in ViewIds |-> {}]
    /\ req = [r \in Reqs |-> Idle]

NextUpdateRace ==
    \E r \in Reqs :
        \/ \E d \in {<<"b", "">>, <<"", "T">>} :
                ViewView_patch_get_view(r, 1, "", d[1], d[2])
        \/ ViewView_patch_update_view(r)
        \/ \E d \in {<<2, "">>, <<0, "b">>} :
                ViewFilterView_patch_get_filter(r, 1, d[1], "", d[2])
        \/ ViewFilterView_patch_update_filter(r)
        \/ ViewFilterView_patch_commit(r)
        \/ \E d \in {<<2, "">>, <<0, "DESC">>} :
                ViewSortView_patch_get_sort(r, 1, d[1], d[2])
        \/ ViewSortView_patch_update_sort(r)
        \/ ViewSortView_patch_commit(r)

SpecUpdateRace == InitUpdateRace /\ [][NextUpdateRace]_vars

-----------------------------------------------------------------------------
(* SpecLinks: the public lookup on the shared view 1 when a row of the     *)
(* link row table may be linked from no row.                               *)

\* View 1 is of any type, holds slug 1 and is shared; row 1 of T1 links to
\* row 1 of T2, row 2 has value "b" and links to row 2 of T2 or to no row.
InitLinks ==
    /\ InitCommon
    /\ \E t \in ViewTypes :
          views = [InitViews EXCEPT ![1].type = t, ![1].slug = 1,
                                    ![1].public = TRUE]
    /\ \E l \in {{}, {2}} :
          rows = [InitRows EXCEPT ![1].links = {1},
                                  ![2].val[1] = "b", ![2].links = l]

SpecLinks == InitLinks /\ [][NextPublic]_vars

-----------------------------------------------------------------------------
(* ViewFilterView.patch: the failures its schema declares.                 *)

\* The exceptions of the views app and of its neighbours that views.py
\* imports for its maps.
ViewExceptions ==
    {"UserNotInGroup", "FieldNotInTable", "FieldDoesNotExist",
     "TableDoesNotExist", "ViewDoesNotExist", "ViewNotInTable",
     "ViewFilterDoesNotExist", "ViewFilterNotSupported",
     "ViewFilterTypeNotAllowedForField", "ViewSortDoesNotExist",
     "ViewSortNotSupported", "ViewSortFieldAlreadyExist",
     "ViewSortFieldNotSupported", "UnrelatedFieldError",
     "ViewDoesNotSupportFieldOptions", "CannotShareViewTypeError"}

\* responses= of the extend_schema of ViewFilterView.patch: the error codes
\* under 400 and 404.
ViewFilterView_patch_responses ==
    {"ERROR_USER_NOT_IN_GROUP", "ERROR_FIELD_NOT_IN_TABLE",
     "ERROR_VIEW_FILTER_NOT_SUPPORTED",
     "ERROR_VIEW_FILTER_TYPE_UNSUPPORTED_FIELD",
     "ERROR_VIEW_FILTER_DOES_NOT_EXIST"}

-----------------------------------------------------------------------------
(* The read endpoints: plain queries, outside any transaction.             *)

ViewsView_get_map_exceptions(exc) ==
    CASE exc = "TableDoesNotExist" -> "ERROR_TABLE_DOES_NOT_EXIST"
      [] exc = "UserNotInGroup" -> "ERROR_USER_NOT_IN_GROUP"
      [] OTHER -> "ERROR_500"

\* ViewsView.get: get_table, the membership check and
\* View.objects.filter(table=table).
ViewsView_get(r, table_id, user) ==
    LET arg == [NoArg EXCEPT !.table = table_id, !.user = user]
        exc == IF get_table_exception(table_id) # ""
               THEN get_table_exception(table_id)
               ELSE IF ~has_user(user) THEN "UserNotInGroup" ELSE ""
    IN  /\ Free(r)
        /\ req' = [req EXCEPT ![r] = [Idle EXCEPT !.pc = "done",
                      !.op = "list_views", !.arg = arg,
                      !.status = IF exc # "" THEN ViewsView_get_map_exceptions(exc)
                                 ELSE "OK",
                      !.ids = IF exc # "" THEN {} ELSE ViewsOfTable(table_id)]]
        /\ UNCHANGED <<persisted, seq, issued, history>>

ViewView_get_map_exceptions(exc) ==
    CASE exc = "ViewDoesNotExist" -> "ERROR_VIEW_DOES_NOT_EXIST"
      [] exc = "UserNotInGroup" -> "ERROR_USER_NOT_IN_GROUP"
      [] OTHER -> "ERROR_500"

\* ViewView.get: ViewHandler().get_view(view_id) and the membership check.
ViewView_get(r, view_id, user) ==
    LET arg == [NoArg EXCEPT !.view = view_id, !.user = user]
        exc == IF ~ViewExists(view_id) THEN "ViewDoesNotExist"
               ELSE IF ~has_user(user) THEN "UserNotInGroup" ELSE ""
    IN  /\ Free(r)
        /\ req' = [req EXCEPT ![r] = [Idle EXCEPT !.pc = "done",
                      !.op = "get_view", !.arg = arg,
                      !.status = IF exc # "" THEN ViewView_get_map_exceptions(exc)
                                 ELSE "OK",
                      !.ids = IF exc # "" THEN {} ELSE {view_id}]]
        /\ UNCHANGED <<persisted, seq, issued, history>>

ViewFiltersView_get_map_exceptions(exc) ==
    CASE exc = "ViewDoesNotExist" -> "ERROR_VIEW_DOES_NOT_EXIST"
      [] exc = "UserNotInGroup" -> "ERROR_USER_NOT_IN_GROUP"
      [] OTHER -> "ERROR_500"

\* A listing that reads the view and its filters FOR UPDATE.
ViewFiltersView_get_locks_ForUpdate(view_id) ==
    {<<"view", view_id>>} \cup {<<"filter", x.id>> : x \in FiltersOf(view_id)}

\* The row locks the listing of the filters takes: get_view(view_id) and
\* ViewFilter.objects.filter(view=view) are plain queries.
ViewFiltersView_get_locks(view_id) == {}

\* ViewFiltersView.get, first query: get_view and the membership check.
ViewFiltersView_get_get_view(r, view_id, user) ==
    LET arg == [NoArg EXCEPT !.view = view_id, !.user = user]
    IN  /\ Free(r)
        /\ ViewFiltersView_get_locks(view_id) \cap LockedByOther(r) = {}
        /\ IF ~ViewExists(view_id)
           THEN Reject(r, "list_filters", arg,
                    ViewFiltersView_get_map_exceptions("ViewDoesNotExist"))
           ELSE IF ~has_user(user)
           THEN Reject(r, "list_filters", arg,
                    ViewFiltersView_get_map_exceptions("UserNotInGroup"))
           ELSE Fetched(r, "list_filters", arg, views[view_id], NoSort,
                        ViewFiltersView_get_locks(view_id))
        /\ UNCHANGED <<persisted, seq, issued, history>>

\* ViewFiltersView.get, second query: the serializer evaluates
\* ViewFilter.objects.filter(view=view).
ViewFiltersView_get_filters(r) ==
    /\ req[r].pc = "fetched"
    /\ req[r].op = "list_filters"
    /\ ViewFiltersView_get_locks(req[r].arg.view) \cap LockedByOther(r) = {}
    /\ Respond(r, "OK", {x.id : x \in FiltersOf(req[r].arg.view)})
    /\ UNCHANGED <<persisted, seq, issued, history>>

ViewSortingsView_get_map_exceptions(exc) ==
    CASE exc = "ViewDoesNotExist" -> "ERROR_VIEW_DOES_NOT_EXIST"
      [] exc = "UserNotInGroup" -> "ERROR_USER_NOT_IN_GROUP"
      [] OTHER -> "ERROR_500"

\* ViewSortingsView.get, first query: get_view and the membership check.
ViewSortingsView_get_get_view(r, view_id, user) ==
    LET arg == [NoArg EXCEPT !.view = view_id, !.user = user]
    IN  /\ Free(r)
        /\ IF ~ViewExists(view_id)
           THEN Reject(r, "list_sortings", arg,
                    ViewSortingsView_get_map_exceptions("ViewDoesNotExist"))
           ELSE IF ~has_user(user)
           THEN Reject(r, "list_sortings", arg,
                    ViewSortingsView_get_map_exceptions("UserNotInGroup"))
           ELSE Fetched(r, "list_sortings", arg, views[view_id], NoSort, {})
        /\ UNCHANGED <<persisted, seq, issued, history>>

\* ViewSortingsView.get, second query: the serializer evaluates
\* ViewSort.objects.filter(view=view).
ViewSortingsView_get_sortings(r) ==
    /\ req[r].pc = "fetched"
    /\ req[r].op = "list_sortings"
    /\ Respond(r, "OK", {s.id : s \in SortsOf(req[r].arg.view)})
    /\ UNCHANGED <<persisted, seq, issued, history>>

ViewFilterView_get_map_exceptions(exc) ==
    CASE exc = "ViewFilterDoesNotExist" -> "ERROR_VIEW_FILTER_DOES_NOT_EXIST"
      [] exc = "UserNotInGroup" -> "ERROR_USER_NOT_IN_GROUP"
      [] OTHER -> "ERROR_500"

\* ViewFilterView.get: ViewHandler().get_filter(user, id), no base_queryset.
ViewFilterView_get(r, view_filter_id, user) ==
    LET arg == [NoArg EXCEPT !.id = view_filter_id, !.user = user]
        exc == IF ~FilterExists(view_filter_id) THEN "ViewFilterDoesNotExist"
               ELSE IF ~has_user(user) THEN "UserNotInGroup" ELSE ""
    IN  /\ Free(r)
        /\ req' = [req EXCEPT ![r] = [Idle EXCEPT !.pc = "done",
                      !.op = "get_filter", !.arg = arg,
                      !.status = IF exc # ""
                                 THEN ViewFilterView_get_map_exceptions(exc)
                                 ELSE "OK",
                      !.ids = IF exc # "" THEN {} ELSE {view_filter_id},
                      !.filter = IF exc # "" THEN NoFilter
                                 ELSE FilterById(view_filter_id)]]
        /\ UNCHANGED <<persisted, seq, issued, history>>

ViewSortView_get_map_exceptions(exc) ==
    CASE exc = "ViewSortDoesNotExist" -> "ERROR_VIEW_SORT_DOES_NOT_EXIST"
      [] exc = "UserNotInGroup" -> "ERROR_USER_NOT_IN_GROUP"
      [] OTHER -> "ERROR_500"

\* ViewSortView.get: ViewHandler().get_sort(user, id), no base_queryset.
ViewSortView_get(r, view_sort_id, user) ==
    LET arg == [NoArg EXCEPT !.id = view_sort_id, !.user = user]
        exc == IF ~SortExists(view_sort_id) THEN "ViewSortDoesNotExist"
               ELSE IF ~has_user(user) THEN "UserNotInGroup" ELSE ""
    IN  /\ Free(r)
        /\ req' = [req EXCEPT ![r] = [Idle EXCEPT !.pc = "done",
                      !.op = "get_sort", !.arg = arg,
                      !.status = IF exc # ""
                                 THEN ViewSortView_get_map_exceptions(exc)
                                 ELSE "OK",
                      !.ids = IF exc # "" THEN {} ELSE {view_sort_id},
                      !.sort = IF exc # "" THEN NoSort
                               ELSE SortById(view_sort_id)]]
        /\ UNCHANGED <<persisted, seq, issued, history>>

-----------------------------------------------------------------------------
(* SpecRead: the updates of view 1, its filter and its sort in slot 1, the *)
(* reads in slot 2.                                                        *)

Writer == 1

Reader == 2

NextRead ==
    \/ \E d \in {<<"b", "">>, <<"", "T">>} :
            ViewView_patch_get_view(Writer, 1, "", d[1], d[2])
    \/ ViewView_patch_update_view(Writer)
    \/ ViewFilterView_patch_get_filter(Writer, 1, 0, "", "b")
    \/ ViewFilterView_patch_update_filter(Writer)
    \/ ViewFilterView_patch_commit(Writer)
    \/ ViewSortView_patch_get_sort(Writer, 1, 0, "DESC")
    \/ ViewSortView_patch_update_sort(Writer)
    \/ ViewSortView_patch_commit(Writer)
    \/ \E t \in {"T1", "T3"}, u \in {"member", "outsider"} :
            ViewsView_get(Reader, t, u)
    \/ \E v \in {1, 5} : ViewView_get(Reader, v, "member")
    \/ \E v \in {1, 5}, u \in {"member", "outsider"} :
            ViewFiltersView_get_get_view(Reader, v, u)
    \/ ViewFiltersView_get_filters(Reader)
    \/ \E v \in {1, 5} : ViewSortingsView_get_get_view(Reader, v, "member")
    \/ ViewSortingsView_get_sortings(Reader)
    \/ \E x \in {1, 2} : ViewFilterView_get(Reader, x, "member")
    \/ \E s \in {1, 2} : ViewSortView_get(Reader, s, "member")
    \/ PublicViewLinkRowFieldLookupView_get_request(Reader, "anon", 1,
                                                    LinkField, "")

SpecRead == InitUpdateRace /\ [][NextRead]_vars

-----------------------------------------------------------------------------
(* ViewHandler.apply_sorts and the SortComposer.                           *)

SortRowIds == 1..3

\* The collation of the text values.
ValueRank(x) == IF x = "a" THEN 1 ELSE 2

\* The orders in which a base query may hand over the rows of S.
Perms(S) ==
    {q \in [1..Cardinality(S) -> S] :
        \A a, b \in 1..Cardinality(S) : a # b => q[a] # q[b]}

\* The sorts of view v in creation order: ascending ids of the sequence.
ordered_sorts(v) ==
    CHOOSE q \in Perms(SortsOf(v)) :
        \A a, b \in 1..Len(q) : a < b => q[a].id < q[b].id

\* One ordering key: the sort's field, the direction flips the comparison.
KeyBefore(s, i, j) ==
    IF s.order = "ASC"
    THEN ValueRank(rows[i].val[s.field]) < ValueRank(rows[j].val[s.field])
    ELSE ValueRank(rows[i].val[s.field]) > ValueRank(rows[j].val[s.field])

KeyEqual(s, i, j) == rows[i].val[s.field] = rows[j].val[s.field]

\* An ordering that ends with the last sort key.
tie_break_None(i, j) == FALSE

\* The final tie-break: the row identity, ascending.
tie_break(i, j) == i < j

RECURSIVE compose(_, _, _)
\* SortComposer.compose: row i comes before row j; the first key on which
\* they differ decides, the tie-break decides when they differ on none.
compose(keys, i, j) ==
    IF keys = <<>> THEN tie_break(i, j)
    ELSE IF KeyEqual(Head(keys), i, j) THEN compose(Tail(keys), i, j)
    ELSE KeyBefore(Head(keys), i, j)

RECURSIVE order_insert(_, _, _)
\* The ordering puts row i behind the rows that do not come after it.
order_insert(keys, out, i) ==
    IF out = <<>> THEN <<i>>
    ELSE IF compose(keys, i, Head(out)) THEN <<i>> \o out
    ELSE <<Head(out)>> \o order_insert(keys, Tail(out), i)

RECURSIVE order_by(_, _, _)
order_by(keys, base, out) ==
    IF base = <<>> THEN out
    ELSE order_by(keys, Tail(base), order_insert(keys, out, Head(base)))

\* apply_sorts(view, base_query): the rows of the base query in the order of
\* the composed keys.
apply_sorts(v, base) == order_by(ordered_sorts(v), base, <<>>)

\* A listing of the rows of a view: the response holds the ordered row ids.
apply_sorts_request(r, v, base) ==
    /\ Free(r)
    /\ ViewExists(v)
    /\ req' = [req EXCEPT ![r] = [Idle EXCEPT !.pc = "done",
                  !.op = "apply_sorts",
                  !.arg = [NoArg EXCEPT !.view = v, !.ids = base],
                  !.status = "OK", !.ins = apply_sorts(v, base)]]
    /\ UNCHANGED <<persisted, seq, issued, history>>

-----------------------------------------------------------------------------
(* SpecApplySorts: sorts of view 1 on fields 1 and 2, and listings of its  *)
(* rows, over every assignment of the two values to the rows.              *)

InitApplySorts ==
    /\ InitCommon
    /\ views = InitViews
    /\ rows \in [SortRowIds -> {[val |-> [f \in 1..3 |-> IF f = 1 THEN x
                                                       ELSE IF f = 2 THEN y
                                                       ELSE "a"],
                                  links |-> {}] : x \in Values, y \in Values}]

NextApplySorts ==
    \E r \in OneReq :
        \/ \E f \in {1, 2}, o \in Orders :
                ViewSortingsView_post_get_view(r, 1, f, o)
        \/ ViewSortingsView_post_create_sort(r)
        \/ ViewSortingsView_post_commit(r)
        \/ \E base \in Perms(SortRowIds) : apply_sorts_request(r, 1, base)

SpecApplySorts == InitApplySorts /\ [][NextApplySorts]_vars

-----------------------------------------------------------------------------
(* SpecOwnership: view 1 is deleted while a filter, a sort and field       *)
(* options are created for it, two requests at a time.                     *)

NextOwnership ==
    \E r \in Reqs :
        \/ ViewFiltersView_post_get_view(r, 1, 1, "equal", "a")
        \/ ViewFiltersView_post_create_filter(r)
        \/ ViewFiltersView_post_commit(r)
        \/ ViewSortingsView_post_get_view(r, 1, 1, "ASC")
        \/ ViewSortingsView_post_create_sort(r)
        \/ ViewSortingsView_post_commit(r)
        \/ ViewFieldOptionsView_patch_get_view(r, 1, [g \in {1} |-> FALSE])
        \/ ViewFieldOptionsView_patch_update_field_options(r)
        \/ ViewFieldOptionsView_patch_commit(r)
        \/ ViewView_delete_get_view(r, 1, "member")
        \/ ViewView_delete_delete_view(r)
        \/ ViewView_delete_commit(r)

SpecOwnership == InitDelete /\ [][NextOwnership]_vars

-----------------------------------------------------------------------------
(* Sorts: uniqueness and the refused second sort.                          *)

\* C1: in every reachable state, under any interleaving of concurrent
\* create-sort and update-sort requests, at most one ViewSort exists per
\* (view, field) pair.
C1_SortUniquePerViewField ==
    \A s, t \in sorts : (s.view = t.view /\ s.field = t.field) => s.id = t.id

\* C2: a create-sort request whose (view, field) pair has a ViewSort when
\* create_sort runs ends with ERROR_VIEW_SORT_FIELD_ALREADY_EXISTS, and its
\* step leaves every persisted row and the id sequences as they were.
C2_CreateSortOnExistingPairFails ==
    [][\A r \in Reqs :
        ( /\ req[r].pc = "fetched"
          /\ req[r].op = "create_sort"
          /\ req'[r] # req[r]
          /\ \E s \in sorts : /\ s.view = req[r].arg.view
                              /\ s.field = req[r].arg.field )
        => ( /\ req'[r].pc = "done"
             /\ req'[r].status = "ERROR_VIEW_SORT_FIELD_ALREADY_EXISTS"
             /\ persisted' = persisted
             /\ seq' = seq )]_vars

\* A second create-sort on a pair that has a sort was refused.
C2_Witness ==
    \E r \in Reqs :
        /\ req[r].pc = "done"
        /\ req[r].op = "create_sort"
        /\ req[r].status = "ERROR_VIEW_SORT_FIELD_ALREADY_EXISTS"
        /\ \E s \in sorts : /\ s.view = req[r].arg.view
                            /\ s.field = req[r].arg.field

-----------------------------------------------------------------------------
(* Slug rotation.                                                          *)

\* A view whose slug was rotated holds a token of the generator.
Rotated(v) == views[v].slug \notin InitSlugs \cup {NoSlug}

\* C3 (as stated): after a successful rotation of a view, a lookup by any
\* slug the view had before fails with ViewDoesNotExist, and a lookup by the
\* new slug resolves to the view, whoever the caller is.
C3_Original ==
    \A v \in DOMAIN views : Rotated(v) =>
        \A u \in Users :
            /\ \A s \in history[v] : get_public_view_by_slug(u, s) = 0
            /\ get_public_view_by_slug(u, views[v].slug) = v

\* C3 (amended): after a successful rotation of a view, a lookup by any slug
\* the view had before fails with ViewDoesNotExist for every caller, and a
\* lookup by the new slug resolves to the view when the view is publicly
\* shared or the caller is a member of its group, and fails otherwise.
C3_RotatedSlugResolves ==
    \A v \in DOMAIN views : Rotated(v) =>
        \A u \in Users :
            /\ \A s \in history[v] : get_public_view_by_slug(u, s) = 0
            /\ get_public_view_by_slug(u, views[v].slug) =
                  IF views[v].public \/ u = "member" THEN v ELSE 0

\* A view that had a slug was rotated twice; it is not shared.
C3_Witness ==
    \E v \in DOMAIN views :
        /\ Rotated(v)
        /\ Cardinality(history[v]) >= 2
        /\ ~views[v].public
        /\ \E r \in Reqs : /\ req[r].pc = "done"
                           /\ req[r].op = "rotate_view_slug"
                           /\ req[r].status = "OK"
                           /\ req[r].arg.view = v

\* C4: no two views hold the same slug, and the slug of a view differs from
\* every slug the view held before (a rotation never returns a token the view
\* had), also when rotations run concurrently.
C4_SlugsUniqueAndFresh ==
    /\ \A v, w \in DOMAIN views :
          (v # w /\ views[v].slug # NoSlug) => views[v].slug # views[w].slug
    /\ \A v \in DOMAIN views : views[v].slug \notin history[v]

\* A view was rotated, and rotations of two different views are in flight
\* at the same time, each with its new token.
C4_Witness ==
    /\ \E v \in DOMAIN views : Rotated(v) /\ history[v] # {}
    /\ \A r \in Reqs : /\ req[r].pc = "written"
                       /\ req[r].op = "rotate_view_slug"
    /\ req[1].arg.view # req[2].arg.view

\* C5: a rotation request on a view whose type has can_share = false ends
\* with ERROR_CANNOT_SHARE_VIEW_TYPE, and its step leaves the view's slug,
\* every other persisted row and the token generator as they were.
C5_RotateUnshareableFails ==
    [][\A r \in Reqs :
        ( /\ req[r].pc = "fetched"
          /\ req[r].op = "rotate_view_slug"
          /\ req'[r] # req[r]
          /\ ~view_type_registry[views[req[r].arg.view].type].can_share )
        => ( /\ req'[r].pc = "done"
             /\ req'[r].status = "ERROR_CANNOT_SHARE_VIEW_TYPE"
             /\ persisted' = persisted
             /\ issued' = issued
             /\ history' = history )]_vars

\* A rotation of the kanban view, which holds a slug, was refused.
C5_Witness ==
    \E r \in Reqs :
        /\ req[r].pc = "done"
        /\ req[r].op = "rotate_view_slug"
        /\ req[r].status = "ERROR_CANNOT_SHARE_VIEW_TYPE"
        /\ views[req[r].arg.view].slug # NoSlug
        /\ ~view_type_registry[views[req[r].arg.view].type].can_share

-----------------------------------------------------------------------------
(* The public link row lookup.                                             *)

Searches == {"", "a", "b"}

\* The fields the claims look up: a text field of T1, its link row field and
\* the field of T2.
ProbeFields == {1, LinkField, 5}

\* The slugs the claims look up: no slug, every slug a view holds, and a
\* token no view holds.
ProbeSlugs ==
    LET held == {views[v].slug : v \in DOMAIN views}
    IN  held \cup {NoSlug} \cup {CHOOSE t \in Slugs : t \notin held}

\* The lookup of a request by user u with slug sl reaches view v: v holds the
\* slug, its type can share, and it is shared or u is a member of its group.
Reaches(u, sl, v) ==
    /\ v \in DOMAIN views
    /\ sl # NoSlug
    /\ views[v].slug = sl
    /\ view_type_registry[views[v].type].can_share
    /\ (views[v].public \/ u = "member")

\* Field f is a link row field with a visible field option in view v.
VisibleLink(v, f) ==
    /\ FieldType(f) = "link_row"
    /\ FieldTable(f) = views[v].table
    /\ \E o \in options : o.view = v /\ o.field = f /\ ~o.hidden

\* The rows of T2 linked through f from a row of T1 that satisfies every
\* filter of view v.
LinkedFromFiltered(v, f) ==
    {t \in TargetRowIds :
        \E i \in RowIds : /\ \A x \in filters : x.view = v => FilterMatches(x, i)
                          /\ t \in rows[i].links}

\* C6: for a shared view whose type restricts the link row lookup and can
\* filter, the lookup without search returns exactly the rows of T linked
\* through F from a row that satisfies all filters of the view; for a view
\* type that does not restrict, it returns all rows of T.
C6_LookupReturnsLinkedRowsOfFilteredView ==
    \A u \in Users, sl \in ProbeSlugs, v \in DOMAIN views :
        (Reaches(u, sl, v) /\ VisibleLink(v, LinkField)) =>
            LET res == PublicViewLinkRowFieldLookupView_get(u, sl, LinkField, "")
                vt == view_type_registry[views[v].type]
            IN  /\ res.status = "OK"
                /\ (vt.restrict_link_row_public_view_sharing /\ vt.can_filter)
                      => res.ids = LinkedFromFiltered(v, LinkField)
                /\ ~vt.restrict_link_row_public_view_sharing
                      => res.ids = TargetRowIds

\* A lookup on the grid view returned some but not all of the rows linked
\* from its table: a filter of the view hides a row that links to the others.
C6_Witness ==
    /\ req[1].pc = "done"
    /\ req[1].op = "lookup"
    /\ req[1].status = "OK"
    /\ req[1].arg.search = ""
    /\ views[1].type = "grid"
    /\ FiltersOf(1) # {}
    /\ req[1].ids # {}
    /\ req[1].ids # UNION {rows[i].links : i \in RowIds}
    /\ req[1].ids = LinkedFromFiltered(1, LinkField)

\* C7 (as stated): the lookup fails with ERROR_VIEW_DOES_NOT_EXIST and returns
\* no row whenever the slug is unknown, the view is not publicly shared, or
\* the view's type cannot share.
C7_Original ==
    \A u \in Users, sl \in ProbeSlugs, f \in ProbeFields, x \in Searches :
        ( \/ ~\E v \in DOMAIN views : sl # NoSlug /\ views[v].slug = sl
          \/ \E v \in DOMAIN views :
                /\ views[v].slug = sl
                /\ \/ ~views[v].public
                   \/ ~view_type_registry[views[v].type].can_share )
        => PublicViewLinkRowFieldLookupView_get(u, sl, f, x) =
              [status |-> "ERROR_VIEW_DOES_NOT_EXIST", ids |-> {}]

\* C7 (amended): the lookup fails with ERROR_VIEW_DOES_NOT_EXIST and returns
\* no row whenever the slug is unknown, the view is not publicly shared and
\* the caller is not a member of the view's group, or the view's type cannot
\* share.
C7_LookupFailsWithViewNotFound ==
    \A u \in Users, sl \in ProbeSlugs, f \in ProbeFields, x \in Searches :
        ( \/ ~\E v \in DOMAIN views : sl # NoSlug /\ views[v].slug = sl
          \/ \E v \in DOMAIN views :
                /\ views[v].slug = sl
                /\ \/ ~views[v].public /\ u # "member"
                   \/ ~view_type_registry[views[v].type].can_share )
        => PublicViewLinkRowFieldLookupView_get(u, sl, f, x) =
              [status |-> "ERROR_VIEW_DOES_NOT_EXIST", ids |-> {}]

\* A lookup by the slug of the shared view 1, whose type cannot share, for a
\* link row field the view shows, failed with ERROR_VIEW_DOES_NOT_EXIST.
C7_Witness ==
    /\ req[1].pc = "done"
    /\ req[1].op = "lookup"
    /\ req[1].status = "ERROR_VIEW_DOES_NOT_EXIST"
    /\ req[1].ids = {}
    /\ req[1].arg.slug = views[1].slug
    /\ req[1].arg.field = LinkField
    /\ views[1].public
    /\ ~view_type_registry[views[1].type].can_share

\* C8: a lookup that reaches a view fails with ERROR_FIELD_DOES_NOT_EXIST and
\* returns no row whenever the field is not a link row field with a visible
\* field option in the view (it is of another type, hidden, without field
\* option in the view, or of another table).
C8_LookupFailsWithFieldNotFound ==
    \A u \in Users, sl \in ProbeSlugs, v \in DOMAIN views, f \in ProbeFields,
       x \in Searches :
        (Reaches(u, sl, v) /\ ~VisibleLink(v, f)) =>
            PublicViewLinkRowFieldLookupView_get(u, sl, f, x) =
                [status |-> "ERROR_FIELD_DOES_NOT_EXIST", ids |-> {}]

\* A lookup for the text field 1, which view 1 shows, failed with
\* ERROR_FIELD_DOES_NOT_EXIST, and the link row field of the view is hidden.
C8_Witness ==
    /\ req[1].pc = "done"
    /\ req[1].op = "lookup"
    /\ req[1].status = "ERROR_FIELD_DOES_NOT_EXIST"
    /\ req[1].arg.field = 1
    /\ Reaches(req[1].arg.user, req[1].arg.slug, 1)
    /\ \E o \in options : o.view = 1 /\ o.field = 1 /\ ~o.hidden
    /\ \E o \in options : o.view = 1 /\ o.field = LinkField /\ o.hidden

\* C9 (as stated): the response of the lookup is the same for every caller.
C9_Original ==
    \A sl \in ProbeSlugs, f \in ProbeFields, x \in Searches :
        \A u1, u2 \in Users :
            PublicViewLinkRowFieldLookupView_get(u1, sl, f, x) =
                PublicViewLinkRowFieldLookupView_get(u2, sl, f, x)

\* C9 (amended): an anonymous caller and a non-member always get the same
\* response; a member gets the same response as they do when the slug is
\* unknown or the view is publicly shared or its type cannot share; for a
\* view that is not publicly shared they get ERROR_VIEW_DOES_NOT_EXIST,
\* whatever the member gets.
C9_LookupDependsOnMembershipOnlyIfNotShared ==
    \A sl \in ProbeSlugs, f \in ProbeFields, x \in Searches :
        LET get(u) == PublicViewLinkRowFieldLookupView_get(u, sl, f, x)
            held == {v \in DOMAIN views : sl # NoSlug /\ views[v].slug = sl}
        IN  /\ get("anon") = get("outsider")
            /\ ( \/ held = {}
                 \/ \E v \in held :
                       \/ views[v].public
                       \/ ~view_type_registry[views[v].type].can_share )
                  => get("member") = get("anon")
            /\ (\E v \in held : ~views[v].public)
                  => get("anon").status = "ERROR_VIEW_DOES_NOT_EXIST"

\* A member looked up rows through the slug of a view that is not shared, a
\* lookup that fails for the anonymous caller.
C9_Witness ==
    /\ req[1].pc = "done"
    /\ req[1].op = "lookup"
    /\ req[1].arg.user = "member"
    /\ req[1].status = "OK"
    /\ req[1].ids # {}
    /\ ~views[1].public
    /\ req[1].arg.slug = views[1].slug
    /\ PublicViewLinkRowFieldLookupView_get("anon", req[1].arg.slug,
            req[1].arg.field, "").status = "ERROR_VIEW_DOES_NOT_EXIST"

-----------------------------------------------------------------------------
(* The order of the views.                                                 *)

\* C10: when an order_views(table, ids) request succeeds, every view whose
\* id is in ids has the position of its entry in ids (counted from 0), every
\* view of the table whose id is not in ids has position 0, and the views of
\* the other tables are as they were before the request.
C10_OrderViewsSetsPositions ==
    [][\A r \in Reqs :
          (/\ req'[r] # req[r] \/ views' # views
           /\ req'[r].pc = "done"
           /\ req'[r].op = "order_views"
           /\ req'[r].status = "OK") =>
              LET t == req'[r].arg.table
                  ids == req'[r].arg.ids
                  listed == {ids[i] : i \in 1..Len(ids)}
              IN  /\ DOMAIN views' = DOMAIN views
                  /\ \A v \in DOMAIN views :
                        /\ v \in listed =>
                              \E i \in 1..Len(ids) :
                                  /\ ids[i] = v
                                  /\ views'[v].order = i - 1
                        /\ (views[v].table = t /\ v \notin listed) =>
                              views'[v].order = 0
                        /\ views[v].table # t => views'[v] = views[v]
                        /\ views'[v] = [views[v] EXCEPT
                                           !.order = views'[v].order]]_vars

\* The views 1, 2, 3 of T1 were ordered with the list <<3, 1>>: view 3 is at
\* 0, view 1 at 1, view 2 at 0, and view 4 of T2 is where it was.
C10_Witness ==
    /\ req[1].pc = "done"
    /\ req[1].op = "order_views"
    /\ req[1].status = "OK"
    /\ req[1].arg.table = "T1"
    /\ req[1].arg.ids = <<3, 1>>
    /\ views[3].order = 0
    /\ views[1].order = 1
    /\ views[2].order = 0
    /\ views[4].order = 4

\* C11: an order_views request of a member whose list names an id that is
\* not a view of the table fails with ERROR_VIEW_NOT_IN_TABLE, and every view
\* (listed, omitted or of another table) is after the request as it was
\* before it.
C11_OrderViewsNotInTableChangesNothing ==
    [][\A r \in Reqs :
          (/\ req'[r] # req[r] \/ views' # views
           /\ req'[r].pc = "done"
           /\ req'[r].op = "order_views"
           /\ req'[r].arg.table \in Tables
           /\ req'[r].arg.user = "member"
           /\ \E i \in 1..Len(req'[r].arg.ids) :
                 \/ req'[r].arg.ids[i] \notin DOMAIN views
                 \/ views[req'[r].arg.ids[i]].table # req'[r].arg.table) =>
              /\ req'[r].status = "ERROR_VIEW_NOT_IN_TABLE"
              /\ views' = views]_vars

\* The views of T1 were ordered before; a request for T1 with view 2 of T1,
\* which is not at position 0, followed by view 4 of T2 failed.
C11_Witness ==
    /\ req[1].pc = "done"
    /\ req[1].op = "order_views"
    /\ req[1].status = "ERROR_VIEW_NOT_IN_TABLE"
    /\ req[1].arg.table = "T1"
    /\ req[1].arg.ids = <<2, 4>>
    /\ views[2].order = 1
    /\ views[1].order = 0
    /\ views[4].order = 4

-----------------------------------------------------------------------------
(* The deletion of a view.                                                 *)

\* C12: when a delete_view request for view v succeeds, no filter, sort or
\* field option of v is left, while the rows of the tables, the other views
\* and the filters, sorts and field options of the other views are as they
\* were before.
C12_DeleteViewRemovesItsSettingsOnly ==
    [][\A r \in Reqs :
          (/\ req'[r] # req[r]
           /\ req'[r].pc = "done"
           /\ req'[r].op = "delete_view"
           /\ req'[r].status = "OK") =>
              LET v == req'[r].arg.view
              IN  /\ v \notin DOMAIN views'
                  /\ ~\E x \in filters' : x.view = v
                  /\ ~\E s \in sorts' : s.view = v
                  /\ ~\E o \in options' : o.view = v
                  /\ rows' = rows
                  /\ DOMAIN views' = DOMAIN views \ {v}
                  /\ \A w \in DOMAIN views' : views'[w] = views[w]
                  /\ filters' = {x \in filters : x.view # v}
                  /\ sorts' = {s \in sorts : s.view # v}
                  /\ options' = {o \in options : o.view # v}]_vars

\* View 1 was deleted when it had a filter, a sort or a field option, and
\* view 4 still has one of its own.
C12_Witness ==
    /\ req[1].pc = "done"
    /\ req[1].op = "delete_view"
    /\ req[1].status = "OK"
    /\ req[1].arg.view = 1
    /\ 1 \notin DOMAIN views
    /\ seq.filter + seq.sort + seq.option >= 2
    /\ filters \cup sorts \cup options # {}
    /\ \A x \in filters \cup sorts \cup options : x.view = 4

\* C13: for every view at most one delete_view request succeeds: no two
\* requests hold the answer 204 for the deletion of the same view.
C13_AtMostOneDeleteSucceeds ==
    \A r1, r2 \in Reqs :
        (/\ r1 # r2
         /\ req[r1].pc = "done" /\ req[r1].op = "delete_view"
         /\ req[r2].pc = "done" /\ req[r2].op = "delete_view"
         /\ req[r1].arg.view = req[r2].arg.view
         /\ req[r1].status = "OK") =>
            req[r2].status # "OK"

-----------------------------------------------------------------------------
(* Filters and sorts: what a request may store.                            *)

\* C14: a create_filter request whose filter type does not accept the type of
\* the field never changes the filters, and on a view that can be filtered,
\* with a field of the view's table, it fails with
\* ERROR_VIEW_FILTER_TYPE_UNSUPPORTED_FIELD.
C14_CreateFilterIncompatibleTypeFails ==
    [][\A r \in Reqs :
          (/\ req'[r] # req[r]
           /\ req'[r].op = "create_filter"
           /\ FieldType(req'[r].arg.field) \notin
                 compatible_field_types(req'[r].arg.type)) =>
              /\ filters' = filters
              /\ req'[r].pc # "written"
              /\ (/\ req'[r].pc = "done"
                  /\ req'[r].arg.view \in DOMAIN views
                  /\ view_type_registry[views[req'[r].arg.view].type].can_filter
                  /\ FieldTable(req'[r].arg.field) =
                        views[req'[r].arg.view].table) =>
                    req'[r].status = "ERROR_VIEW_FILTER_TYPE_UNSUPPORTED_FIELD"]_vars

\* View 1 has a filter, and a request for an "equal" filter on its link row
\* field failed with ERROR_VIEW_FILTER_TYPE_UNSUPPORTED_FIELD.
C14_Witness ==
    /\ req[1].pc = "done"
    /\ req[1].op = "create_filter"
    /\ req[1].arg.view = 1
    /\ req[1].arg.field = LinkField
    /\ req[1].arg.type = "equal"
    /\ req[1].status = "ERROR_VIEW_FILTER_TYPE_UNSUPPORTED_FIELD"
    /\ FiltersOf(1) # {}

\* The field a create or update request asks for, and the view that owns (or
\* is to own) the filter or sort; 0 when the request names no stored target.
AskedField(q) ==
    CASE q.op \in {"create_filter", "create_sort"} -> q.arg.field
      [] q.op = "update_filter" ->
            IF q.arg.field = 0 THEN q.filter.field ELSE q.arg.field
      [] q.op = "update_sort" ->
            IF q.arg.field = 0 THEN q.sort.field ELSE q.arg.field
      [] OTHER -> 0

AskedView(q) ==
    CASE q.op \in {"create_filter", "create_sort"} -> q.arg.view
      [] q.op = "update_filter" -> q.filter.view
      [] q.op = "update_sort" -> q.sort.view
      [] OTHER -> 0

\* The view type has the capability the create request needs (an update
\* needs none).
Capable(q) ==
    CASE q.op = "create_filter" ->
            view_type_registry[views[AskedView(q)].type].can_filter
      [] q.op = "create_sort" ->
            view_type_registry[views[AskedView(q)].type].can_sort
      [] OTHER -> TRUE

\* C15: in every reachable state the field of every filter and of every sort
\* is a field of the table of the view that owns it; a create or update
\* request that asks for a field of another table (on a view whose type has
\* the capability) fails with ERROR_FIELD_NOT_IN_TABLE and stores nothing.
C15_FieldsBelongToTheViewsTable ==
    /\ [](\A x \in filters \cup sorts :
             /\ x.view \in DOMAIN views
             /\ FieldTable(x.field) = views[x.view].table)
    /\ [][\A r \in Reqs :
             (/\ req'[r] # req[r]
              /\ req[r].pc = "fetched"
              /\ req[r].op \in {"create_filter", "update_filter",
                                "create_sort", "update_sort"}
              /\ FieldTable(AskedField(req[r])) #
                    views[AskedView(req[r])].table
              /\ Capable(req[r])) =>
                 /\ req'[r].pc = "done"
                 /\ req'[r].status = "ERROR_FIELD_NOT_IN_TABLE"
                 /\ persisted' = persisted]_vars

\* Filters and sorts exist on views of both tables, and an update that asked
\* to move the filter of a view of T1 to the field of T2 failed.
C15_Witness ==
    /\ req[1].pc = "done"
    /\ req[1].op = "update_filter"
    /\ req[1].arg.field = 5
    /\ req[1].status = "ERROR_FIELD_NOT_IN_TABLE"
    /\ \E x \in filters : x.id = req[1].arg.id /\ x.view = 1 /\ x.field # 5
    /\ \E x \in filters : x.view = 4
    /\ \E s \in sorts : s.view = 1
    /\ \E s \in sorts : s.view = 4

\* C16: in every reachable state no filter belongs to a view whose type
\* cannot filter and no sort to a view whose type cannot sort; a create_filter
\* request on a view that cannot filter fails with
\* ERROR_VIEW_FILTER_NOT_SUPPORTED, a create_sort request on a view that
\* cannot sort fails with ERROR_VIEW_SORT_NOT_SUPPORTED, and neither stores
\* anything.
C16_CapabilityGating ==
    /\ [](/\ \A x \in filters :
                view_type_registry[views[x.view].type].can_filter
          /\ \A s \in sorts :
                view_type_registry[views[s.view].type].can_sort)
    /\ [][\A r \in Reqs :
             (/\ req'[r] # req[r]
              /\ req[r].pc = "fetched"
              /\ req[r].op \in {"create_filter", "create_sort"}
              /\ ~Capable(req[r])) =>
                 /\ req'[r].pc = "done"
                 /\ req'[r].status =
                       IF req[r].op = "create_filter"
                       THEN "ERROR_VIEW_FILTER_NOT_SUPPORTED"
                       ELSE "ERROR_VIEW_SORT_NOT_SUPPORTED"
                 /\ persisted' = persisted
                 /\ seq' = seq]_vars

\* A create_sort request on view 2, a form, failed with
\* ERROR_VIEW_SORT_NOT_SUPPORTED for a field one may sort by, while view 1
\* has a filter and a sort.
C16_Witness ==
    /\ req[1].pc = "done"
    /\ req[1].op = "create_sort"
    /\ req[1].arg.view = 2
    /\ req[1].arg.field = 1
    /\ views[2].type = "form"
    /\ req[1].status = "ERROR_VIEW_SORT_NOT_SUPPORTED"
    /\ FiltersOf(1) # {}
    /\ SortsOf(1) # {}

-----------------------------------------------------------------------------
(* The type of a view.                                                     *)

-----------------------------------------------------------------------------
(* Field options.                                                          *)

\* C18: an update_field_options request on a view whose type has no field
\* options fails with ERROR_VIEW_DOES_NOT_SUPPORT_FIELD_OPTIONS, the error of
\* the read of the field options of such a view, and the view has no field
\* options row.
C18_UpdateUnsupportedFailsAsTheReadDoes ==
    \A r \in Reqs :
        (/\ req[r].pc = "done"
         /\ req[r].op \in {"update_field_options", "get_field_options"}
         /\ req[r].arg.view \in DOMAIN views
         /\ req[r].arg.user \in {"", "member"}
         /\ ~view_type_registry[views[req[r].arg.view].type].has_field_options) =>
            /\ req[r].status = "ERROR_VIEW_DOES_NOT_SUPPORT_FIELD_OPTIONS"
            /\ OptionsOf(req[r].arg.view) = {}

\* C19: an update_field_options request whose map names a field that is not
\* of the view's table fails with ERROR_UNRELATED_FIELD, and no field options
\* row is created or changed, those of the valid fields of the map included.
C19_UpdateUnrelatedFieldChangesNothing ==
    [][\A r \in Reqs :
          (/\ req'[r] # req[r] \/ options' # options
           /\ req[r].pc = "fetched"
           /\ req[r].op = "update_field_options"
           /\ \E f \in DOMAIN req[r].arg.fo :
                 FieldTable(f) # views[req[r].arg.view].table) =>
              /\ req'[r].pc = "done"
              /\ req'[r].status = "ERROR_UNRELATED_FIELD"
              /\ persisted' = persisted]_vars

\* View 1 shows its field 1, and a request to hide field 1 and field 5, which
\* is of the other table, failed: field 1 is still shown.
C19_Witness ==
    /\ req[1].pc = "done"
    /\ req[1].op = "update_field_options"
    /\ req[1].arg.view = 1
    /\ req[1].arg.fo = [g \in {1, 5} |-> TRUE]
    /\ req[1].status = "ERROR_UNRELATED_FIELD"
    /\ \E o \in options : o.view = 1 /\ o.field = 1 /\ ~o.hidden
    /\ ~\E o \in options : o.field = 5 /\ o.view = 1

-----------------------------------------------------------------------------
(* Concurrent updates of one row.                                          *)

\* The update requests that hold their target between fetch and commit.
Updating(r) ==
    /\ req[r].pc \in {"fetched", "written"}
    /\ req[r].op \in {"update_view", "update_filter", "update_sort"}

UpdateTarget(q) ==
    IF q.op = "update_view" THEN <<"view", q.arg.view>>
    ELSE IF q.op = "update_filter" THEN <<"filter", q.arg.id>>
    ELSE <<"sort", q.arg.id>>

\* C21: two update requests on the same view, filter or sort never hold the
\* row at the same time, the copy an update validates and writes is the
\* committed row (so the later request works on what the earlier committed),
\* and each successful update writes its attributes onto the committed row:
\* the final row is that of the two updates run one after the other.
C21_SameRowUpdatesAreSerialized ==
    /\ [](\A r \in Reqs : Updating(r) =>
             /\ \A q \in Reqs \ {r} :
                   Updating(q) => UpdateTarget(req[q]) # UpdateTarget(req[r])
             /\ req[r].op = "update_view" =>
                   req[r].view = views[req[r].arg.view]
             /\ req[r].op = "update_filter" =>
                   req[r].filter \in filters
             /\ req[r].op = "update_sort" =>
                   req[r].sort \in sorts)
    /\ [][\A r \in Reqs :
             (/\ Updating(r)
              /\ req'[r].pc = "done"
              /\ req'[r].status = "OK") =>
                 LET a == req[r].arg
                 IN  /\ req[r].op = "update_view" =>
                           views' = [views EXCEPT ![a.view] =
                                        update_view_row(views[a.view], a)]
                     /\ req[r].op = "update_filter" =>
                           \E x \in filters :
                              /\ x.id = a.id
                              /\ filters' = (filters \ {x}) \cup
                                    {[x EXCEPT
                                        !.field = update_filter_field(x, a),
                                        !.type = update_filter_type(x, a),
                                        !.value = update_filter_value(x, a)]}
                     /\ req[r].op = "update_sort" =>
                           \E x \in sorts :
                              /\ x.id = a.id
                              /\ sorts' = (sorts \ {x}) \cup
                                    {[x EXCEPT
                                        !.field = update_sort_field(x, a),
                                        !.order = update_sort_order(x, a)]}]_vars

\* Two updates of view 1 succeeded, one of the name and one of the sharing
\* flag, and the view has both; filter 1 and sort 1 were each updated in
\* field and in value or direction.
C21_Witness ==
    /\ \A r \in Reqs : /\ req[r].pc = "done"
                       /\ req[r].op = "update_view"
                       /\ req[r].status = "OK"
    /\ {req[r].arg.name : r \in Reqs} = {"", "b"}
    /\ views[1].name = "b"
    /\ views[1].public
    /\ [id |-> 1, view |-> 1, field |-> 2, type |-> "equal", value |-> "b"]
          \in filters
    /\ [id |-> 1, view |-> 1, field |-> 2, order |-> "DESC"] \in sorts

-----------------------------------------------------------------------------
(* The lookup through a view without filters, and through a view that      *)
(* cannot filter.                                                          *)

\* The rows of T2 linked from some row of T1.
LinkedFromAny == UNION {rows[i].links : i \in RowIds}

\* C22: for a view without filters apply_filters returns every row set as it
\* got it, and the public lookup through such a view, if its type restricts
\* the lookup, returns the rows linked from any row of the view's table.
C22_NoFiltersLeaveTheQueryUnchanged ==
    \A v \in DOMAIN views : FiltersOf(v) = {} =>
        /\ \A Q \in SUBSET RowIds : apply_filters(v, Q) = Q
        /\ \A u \in Users, sl \in ProbeSlugs :
              (/\ Reaches(u, sl, v)
               /\ VisibleLink(v, LinkField)
               /\ view_type_registry[views[v].type]
                     .restrict_link_row_public_view_sharing) =>
                  PublicViewLinkRowFieldLookupView_get(u, sl, LinkField, "") =
                      [status |-> "OK", ids |-> LinkedFromAny]

\* A lookup through the grid view 1, which has no filter, returned the one
\* row of T2 that is linked; the other row of T2 is linked from no row.
C22_Witness ==
    /\ req[1].pc = "done"
    /\ req[1].op = "lookup"
    /\ req[1].status = "OK"
    /\ req[1].arg.search = ""
    /\ views[1].type = "grid"
    /\ FiltersOf(1) = {}
    /\ req[1].ids = {1}
    /\ LinkedFromAny = {1}

-----------------------------------------------------------------------------
(* The read of the field options.                                          *)

\* C23: a read of the field options of a view by a member does not fail when
\* the view has no row for a field of its table: it answers 200, the field
\* has a row with the default options afterwards, and the rows that existed
\* are as they were.
C23_ReadCreatesDefaultFieldOptions ==
    /\ [](\A r \in Reqs :
             (/\ req[r].pc = "done"
              /\ req[r].op = "get_field_options"
              /\ req[r].arg.user = "member"
              /\ req[r].arg.view \in DOMAIN views
              /\ view_type_registry[views[req[r].arg.view].type]
                    .has_field_options) => req[r].status = "OK")
    /\ [][\A r \in Reqs :
             (/\ req[r].op = "get_field_options"
              /\ req[r].pc = "written"
              /\ req'[r].pc = "done") =>
                 LET v == req[r].arg.view
                 IN  /\ req'[r].status = "OK"
                     /\ options \subseteq options'
                     /\ \A f \in FieldsOfTable(views[v].table) :
                           \E o \in options' :
                              /\ o.view = v
                              /\ o.field = f
                              /\ o \notin options => ~o.hidden]_vars

\* A read of the field options of view 4 succeeded, and field 5, the one field
\* of its table, has its one row, with the default options.
C23_Witness ==
    /\ req[1].pc = "done"
    /\ req[1].op = "get_field_options"
    /\ req[1].arg.view = 4
    /\ req[1].status = "OK"
    /\ seq.option = 1
    /\ options = {[id |-> 1, view |-> 4, field |-> 5, hidden |-> FALSE]}

-----------------------------------------------------------------------------
(* Rotation against a concurrent update.                                   *)

\* C24: when a rotate_view_slug request and an update_view request that
\* shares the view have both succeeded on one view, the committed view has
\* the rotated slug and the sharing flag the update wrote.
C24_RotateKeepsConcurrentUpdate ==
    \A r1, r2 \in Reqs :
        (/\ req[r1].pc = "done" /\ req[r1].status = "OK"
         /\ req[r1].op = "rotate_view_slug"
         /\ req[r2].pc = "done" /\ req[r2].status = "OK"
         /\ req[r2].op = "update_view"
         /\ req[r2].arg.public = "T"
         /\ req[r2].arg.view = req[r1].arg.view) =>
            /\ Rotated(req[r1].arg.view)
            /\ views[req[r1].arg.view].public

-----------------------------------------------------------------------------
(* The update of a sort's field.                                           *)

\* The update_sort request r has fetched its sort and asks for another field
\* of the view's table.
AsksOtherField(r) ==
    /\ req[r].pc = "fetched"
    /\ req[r].op = "update_sort"
    /\ req[r].arg.field # 0
    /\ req[r].arg.field # req[r].sort.field
    /\ FieldTable(req[r].arg.field) = views[req[r].sort.view].table

\* C27: an update_sort that moves a sort to a field that has another sort of
\* the same view ends with ERROR_VIEW_SORT_FIELD_ALREADY_EXISTS, one that
\* moves it to a field whose type cannot be ordered by ends with
\* ERROR_VIEW_SORT_FIELD_NOT_SUPPORTED, and either leaves every sort as it was.
C27_UpdateSortRechecksTheNewField ==
    [][\A r \in Reqs :
          (AsksOtherField(r) /\ req'[r].pc = "done") =>
             /\ (\E s \in sorts : /\ s.view = req[r].sort.view
                                  /\ s.id # req[r].sort.id
                                  /\ s.field = req[r].arg.field)
                   => /\ req'[r].status = "ERROR_VIEW_SORT_FIELD_ALREADY_EXISTS"
                      /\ sorts' = sorts
                      /\ req[r].sort \in sorts'
             /\ ~can_order_by(req[r].arg.field)
                   => /\ req'[r].status = "ERROR_VIEW_SORT_FIELD_NOT_SUPPORTED"
                      /\ sorts' = sorts
                      /\ req[r].sort \in sorts']_vars

\* Sort 1 was asked to move to the field of sort 2 of the same view and was
\* refused; both sorts are in place.
C27_Witness ==
    \E s1, s2 \in sorts :
        /\ s1.id # s2.id
        /\ s1.view = s2.view
        /\ req[1].pc = "done"
        /\ req[1].op = "update_sort"
        /\ req[1].arg.id = s1.id
        /\ req[1].arg.field = s2.field
        /\ req[1].status = "ERROR_VIEW_SORT_FIELD_ALREADY_EXISTS"

-----------------------------------------------------------------------------
(* The failures of the update of a filter.                                 *)

\* C29: whenever an update-filter request has fetched its filter and
\* update_filter is about to run, a ViewFilterNotSupported failure would be
\* answered with ERROR_VIEW_FILTER_NOT_SUPPORTED, as the create-filter
\* endpoint answers it, and every error code the schema of the endpoint
\* declares is the answer to some exception of its map.
C29_DeclaredFailuresAreMapped ==
    \A r \in Reqs :
        (req[r].pc = "fetched" /\ req[r].op = "update_filter") =>
            /\ ViewFilterView_patch_map_exceptions("ViewFilterNotSupported")
                  = "ERROR_VIEW_FILTER_NOT_SUPPORTED"
            /\ ViewFilterView_patch_map_exceptions("ViewFilterNotSupported")
                  = ViewFiltersView_post_map_exceptions("ViewFilterNotSupported")
            /\ \A e \in ViewFilterView_patch_responses :
                  \E exc \in ViewExceptions :
                      ViewFilterView_patch_map_exceptions(exc) = e

-----------------------------------------------------------------------------
(* Reads and row locks.                                                    *)

ReadOps ==
    {"list_views", "get_view", "list_filters", "list_sortings", "get_filter",
     "get_sort", "lookup"}

\* Request r is a read between its two queries.
Reading(r) == req[r].pc = "fetched" /\ req[r].op \in ReadOps

\* Every read endpoint accepts a request in slot r.
ReadsStart(r) ==
    /\ ENABLED ViewsView_get(r, "T1", "member")
    /\ ENABLED ViewView_get(r, 1, "member")
    /\ ENABLED ViewFiltersView_get_get_view(r, 1, "member")
    /\ ENABLED ViewSortingsView_get_get_view(r, 1, "member")
    /\ ENABLED ViewFilterView_get(r, 1, "member")
    /\ ENABLED ViewSortView_get(r, 1, "member")
    /\ ENABLED PublicViewLinkRowFieldLookupView_get_request(r, "anon", 1,
                                                            LinkField, "")

\* Every update endpoint accepts a request in slot r.
WritesStart(r) ==
    /\ ENABLED ViewView_patch_get_view(r, 1, "", "b", "")
    /\ ENABLED ViewFilterView_patch_get_filter(r, 1, 0, "", "b")
    /\ ENABLED ViewSortView_patch_get_sort(r, 1, 0, "DESC")

\* C26: whatever row locks the open write transaction holds, a new read is
\* accepted and a read between its queries finishes; a read holds no lock,
\* so an update is accepted while a read is between its queries; and a step
\* of a read changes neither the database nor the other request.
C26_ReadsTakeNoLocks ==
    /\ [](/\ Free(Reader) => ReadsStart(Reader)
          /\ (Reading(Reader) /\ req[Reader].op = "list_filters")
                => ENABLED ViewFiltersView_get_filters(Reader)
          /\ (Reading(Reader) /\ req[Reader].op = "list_sortings")
                => ENABLED ViewSortingsView_get_sortings(Reader)
          /\ \A r \in Reqs : req[r].op \in ReadOps => req[r].locks = {}
          /\ (Free(Writer) /\ Reading(Reader)) => WritesStart(Writer))
    /\ [][\A r \in Reqs :
            (req'[r] # req[r] /\ req'[r].op \in ReadOps) =>
                /\ persisted' = persisted
                /\ \A q \in Reqs \ {r} : req'[q] = req[q]]_vars

\* The update of filter 1 holds the lock of its row in an open transaction,
\* and the listing of the filters of view 1 has answered with filter 1.
C26_Witness ==
    /\ req[Writer].pc \in {"fetched", "written"}
    /\ req[Writer].op = "update_filter"
    /\ <<"filter", 1>> \in req[Writer].locks
    /\ req[Reader].pc = "done"
    /\ req[Reader].op = "list_filters"
    /\ req[Reader].status = "OK"
    /\ req[Reader].ids = {1}

-----------------------------------------------------------------------------
(* The order of the rows of a view.                                        *)

\* Rows i and j have the same value in the field of every sort of view v.
EqualOnEverySort(v, i, j) == \A s \in SortsOf(v) : KeyEqual(s, i, j)

\* The sort of view v that was created first.
FirstSort(v) == CHOOSE s \in SortsOf(v) : \A t \in SortsOf(v) : s.id <= t.id

\* C28: a listing of the rows of a view holds every row once; the first
\* created sort decides the order of two rows that differ on its field, in
\* its direction; rows equal on every sort key are in row-id order; and
\* the answer is the same for every order in which the base query hands
\* over the rows, so a second listing repeats the first.
C28_ApplySortsIsATotalOrder ==
    \A r \in Reqs :
        (req[r].pc = "done" /\ req[r].op = "apply_sorts") =>
            LET v == req[r].arg.view
                out == req[r].ins
                pos(i) == CHOOSE a \in 1..Len(out) : out[a] = i
            IN  /\ out \in Perms(SortRowIds)
                /\ \A base \in Perms(SortRowIds) : apply_sorts(v, base) = out
                /\ apply_sorts(v, out) = out
                /\ \A i, j \in SortRowIds :
                      /\ (i < j /\ EqualOnEverySort(v, i, j)) => pos(i) < pos(j)
                      /\ (SortsOf(v) # {} /\ KeyBefore(FirstSort(v), i, j))
                            => pos(i) < pos(j)

\* View 1 has two sorts, the first descending; rows 1 and 3 are equal on
\* both sort keys and row 2 differs from them on the first; the listing,
\* asked with the rows in the order 3, 2, 1, answered 1, 3, 2.
C28_Witness ==
    /\ Cardinality(SortsOf(1)) = 2
    /\ FirstSort(1).order = "DESC"
    /\ EqualOnEverySort(1, 1, 3)
    /\ KeyBefore(FirstSort(1), 1, 2)
    /\ req[1].pc = "done"
    /\ req[1].op = "apply_sorts"
    /\ req[1].arg.ids = <<3, 2, 1>>
    /\ req[1].ins = <<1, 3, 2>>

-----------------------------------------------------------------------------
(* The rows of a deleted view.                                             *)

-----------------------------------------------------------------------------
(* The lookup on a view whose type cannot be shared.                       *)

\* The slug is that of a view whose type has can_share = false.
Unshareable(slug) ==
    /\ slug # NoSlug
    /\ ViewsWithSlug(slug) # {}
    /\ \A v \in ViewsWithSlug(slug) :
          ~view_type_registry[views[v].type].can_share

\* C31: a lookup with the slug of a view whose type cannot be shared answers
\* ERROR_VIEW_DOES_NOT_EXIST without rows, whoever asks, and the endpoint
\* gives that one answer for every field id and search: the answer does not
\* tell the fields of the view apart.
C31_SharingCheckPrecedesFieldCheck ==
    /\ \A r \in Reqs :
          (/\ req[r].pc = "done"
           /\ req[r].op = "lookup"
           /\ Unshareable(req[r].arg.slug)) =>
              /\ req[r].status = "ERROR_VIEW_DOES_NOT_EXIST"
              /\ req[r].ids = {}
    /\ \A slug \in Slugs : Unshareable(slug) =>
          \A u \in Users, f \in {0} \cup FieldIds, x \in {""} \cup Values :
              PublicViewLinkRowFieldLookupView_get(u, slug, f, x)
                 = [status |-> "ERROR_VIEW_DOES_NOT_EXIST", ids |-> {}]

\* View 1 is a publicly shared kanban view, a type that cannot be shared;
\* the anonymous lookup of its link row field was answered as if the view
\* did not exist.
C31_Witness ==
    /\ views[1].type = "kanban"
    /\ views[1].public
    /\ req[1].pc = "done"
    /\ req[1].op = "lookup"
    /\ req[1].arg.user = "anon"
    /\ req[1].arg.slug = views[1].slug
    /\ req[1].arg.field = LinkField
    /\ req[1].status = "ERROR_VIEW_DOES_NOT_EXIST"

====
